---- MODULE Spec2Model ----
(***************************************************************************)
(* A model of src/src/main.rs (NewFontLoader): the front end               *)
(* (FontLoaderApp), its background workers, the loaded-font registry       *)
(* behind a mutex, the font index and its cache, and the parsers the       *)
(* workers call.                                                           *)
(*                                                                         *)
(* Strings (Rust String / &str) are sequences of UTF-8 bytes; offsets are  *)
(* byte offsets counted from 0 as in the source. Option values are records *)
(* [some, val]. A panic of the source (an out-of-range or non-boundary     *)
(* slice) is an explicit outcome of the operator that models the function. *)
(***************************************************************************)
EXTENDS Integers, Sequences, FiniteSets, TLC

\* ------------------------------------------------------------ Option, str

None == [some |-> FALSE, val |-> <<>>]
Some(v) == [some |-> TRUE, val |-> v]

\* s[a..b] and s[a..] of a str, offsets from 0
Sub(s, a, b) == SubSeq(s, a + 1, b)
From(s, a) == SubSeq(s, a + 1, Len(s))

\* str::is_char_boundary: 0, len, or a byte that is no UTF-8 continuation byte
is_char_boundary(s, i) ==
    \/ i = 0
    \/ i = Len(s)
    \/ i < Len(s) /\ s[i + 1] \notin 128..191

\* s[a..] does not panic
CanSliceFrom(s, a) == a <= Len(s) /\ is_char_boundary(s, a)

starts_with(s, p) == Len(s) >= Len(p) /\ SubSeq(s, 1, Len(p)) = p
ends_with(s, p) == Len(s) >= Len(p) /\ SubSeq(s, Len(s) - Len(p) + 1, Len(s)) = p

\* char::is_whitespace on the one-byte characters
is_whitespace(b) == b \in {9, 10, 11, 12, 13, 32}

RECURSIVE trim_start(_)
trim_start(s) ==
    IF s # <<>> /\ is_whitespace(Head(s)) THEN trim_start(Tail(s)) ELSE s

RECURSIVE trim_end(_)
trim_end(s) ==
    IF s # <<>> /\ is_whitespace(s[Len(s)])
    THEN trim_end(SubSeq(s, 1, Len(s) - 1))
    ELSE s

trim(s) == trim_end(trim_start(s))

RECURSIVE trim_start_matches(_, _)
trim_start_matches(s, c) ==
    IF s # <<>> /\ Head(s) = c THEN trim_start_matches(Tail(s), c) ELSE s

RECURSIVE trim_end_matches(_, _)
trim_end_matches(s, c) ==
    IF s # <<>> /\ s[Len(s)] = c
    THEN trim_end_matches(SubSeq(s, 1, Len(s) - 1), c)
    ELSE s

trim_matches(s, c) == trim_end_matches(trim_start_matches(s, c), c)

\* str::to_lowercase on the one-byte characters: 'A'..'Z' -> 'a'..'z';
\* the bytes of other characters are kept
lower_byte(b) == IF b \in 65..90 THEN b + 32 ELSE b
to_lowercase(s) == [i \in 1..Len(s) |-> lower_byte(s[i])]

\* str::find(pat): the first byte offset where pat occurs, -1 for None
find(s, pat) ==
    LET hits == {i \in 0..(Len(s) - Len(pat)) : Sub(s, i, i + Len(pat)) = pat}
    IN IF hits = {} THEN -1 ELSE CHOOSE i \in hits : \A j \in hits : i <= j

contains(s, pat) == find(s, pat) >= 0

\* str::split(c) collected: the fields between the occurrences of byte c
RECURSIVE split(_, _)
split(s, c) ==
    LET at == find(s, <<c>>)
    IN IF at < 0 THEN <<s>>
       ELSE <<Sub(s, 0, at)>> \o split(From(s, at + 1), c)

\* str::lines: split at '\n', a final empty piece dropped, one trailing '\r'
\* stripped from each line
strip_cr(l) == IF l # <<>> /\ l[Len(l)] = 13 THEN SubSeq(l, 1, Len(l) - 1) ELSE l

RECURSIVE lines(_)
lines(text) ==
    IF text = <<>> THEN <<>>
    ELSE LET at == find(text, <<10>>)
         IN IF at < 0 THEN <<strip_cr(text)>>
            ELSE <<strip_cr(Sub(text, 0, at))>> \o lines(From(text, at + 1))

\* Iterator::position over a Vec<String>, -1 for None
position(v, x) ==
    LET hits == {i \in 1..Len(v) : v[i] = x}
    IN IF hits = {} THEN -1 ELSE (CHOOSE i \in hits : \A j \in hits : i <= j) - 1

\* ------------------------------------------------ subtitle font extraction

normalize_font_name(name) ==
    LET s == trim_matches(trim(name), 0)
        t == IF starts_with(s, <<64>>) THEN Tail(s) ELSE s
    IN IF t = <<>> THEN None ELSE Some(t)

\* the keywords and labels the parser compares with, as bytes
kw_format == <<102, 111, 114, 109, 97, 116, 58>>            \* "format:"
kw_style == <<115, 116, 121, 108, 101, 58>>                 \* "style:"
kw_dialogue == <<100, 105, 97, 108, 111, 103, 117, 101, 58>> \* "dialogue:"
kw_comment == <<99, 111, 109, 109, 101, 110, 116, 58>>      \* "comment:"
kw_styles == <<115, 116, 121, 108, 101, 115>>               \* "styles"
kw_events == <<101, 118, 101, 110, 116, 115>>               \* "events"
kw_fontname == <<102, 111, 110, 116, 110, 97, 109, 101>>    \* "fontname"
kw_text == <<116, 101, 120, 116>>                           \* "text"
kw_fn == <<92, 102, 110>>                                   \* "\fn"

\* parse_format(line, start): the lower-cased, trimmed labels of a Format line
parse_format(line, start) ==
    LET parts == split(trim(From(line, start)), 44)
    IN [i \in 1..Len(parts) |-> to_lowercase(trim(parts[i]))]

\* parse_style_font(line, idx): idx is the column, -1 for None (column 1);
\* the first definition reads column 1 whatever idx is
parse_style_font_default(line, idx) ==
    LET parts == split(trim(From(line, 6)), 44)
    IN IF 1 < Len(parts) THEN normalize_font_name(parts[2]) ELSE None
parse_style_font(line, idx) ==
    LET parts == split(trim(From(line, 6)), 44)
        i == IF idx >= 0 THEN idx ELSE 1
    IN IF i < Len(parts) THEN normalize_font_name(parts[i + 1]) ELSE None

\* the loop of extract_event_text: the offset after the comma at which the
\* counter equals index, -1 when the line has too few commas
RECURSIVE event_split_at(_, _, _, _)
event_split_at(content, index, pos, count) ==
    IF pos >= Len(content) THEN -1
    ELSE IF content[pos + 1] = 44
         THEN IF count = index THEN pos + 1
              ELSE event_split_at(content, index, pos + 1, count + 1)
         ELSE event_split_at(content, index, pos + 1, count)

\* extract_event_text(line, idx): [panic, text]; line[9..] panics when 9 is
\* past the end of the line or inside a character
extract_event_text(line, idx) ==
    IF ~CanSliceFrom(line, 9) THEN [panic |-> TRUE, text |-> <<>>]
    ELSE LET content == trim(From(line, 9))
             index == IF idx >= 0 THEN idx ELSE 9
             at == event_split_at(content, index, 0, 0)
         IN [panic |-> FALSE,
             text |-> IF at >= 0 THEN From(content, at) ELSE <<>>]

\* the end of an unparenthesized \fn name: the first '\' or '}', else the end
fn_name_end(s) ==
    LET hits == {i \in 0..(Len(s) - 1) : s[i + 1] \in {92, 125}}
    IN IF hits = {} THEN Len(s) ELSE CHOOSE i \in hits : \A j \in hits : i <= j

push_some(res, opt) == IF opt.some THEN Append(res, opt.val) ELSE res

\* the while loop of parse_fn_tags from offset start: [panic, res];
\* text[start..] panics when start is inside a character
RECURSIVE fn_tags_from(_, _, _)
fn_tags_from(text, start, res) ==
    IF ~CanSliceFrom(text, start) THEN [panic |-> TRUE, res |-> res]
    ELSE LET pos == find(From(text, start), kw_fn)
         IN IF pos < 0 THEN [panic |-> FALSE, res |-> res]
            ELSE LET idx == start + pos + 3
                     s == trim_start(From(text, idx))
                     close == IF starts_with(s, <<40>>)
                              THEN find(From(s, 1), <<41>>) ELSE -1
                     end == fn_name_end(s)
                 IN IF close >= 0
                    THEN fn_tags_from(text, idx + 1 + close + 1,
                           push_some(res, normalize_font_name(Sub(s, 1, 1 + close))))
                    ELSE fn_tags_from(text, idx + end,
                           push_some(res, normalize_font_name(Sub(s, 0, end))))

parse_fn_tags(text) == fn_tags_from(text, 0, <<>>)

Range(f) == {f[i] : i \in DOMAIN f}

\* one iteration of the line loop of parse_ass_fonts on the parser state
\* [fonts, section, style_font_idx, event_text_idx, panic]
ass_line(st, raw) ==
    LET line == trim(raw)
        lower == to_lowercase(line)
    IN IF starts_with(line, <<91>>) /\ ends_with(line, <<93>>)
       THEN [st EXCEPT !.section = to_lowercase(Sub(line, 1, Len(line) - 1))]
       ELSE IF contains(st.section, kw_styles)
       THEN IF starts_with(lower, kw_format)
            THEN [st EXCEPT !.style_font_idx =
                                position(parse_format(line, 7), kw_fontname)]
            ELSE IF starts_with(lower, kw_style)
            THEN LET font == parse_style_font(line, st.style_font_idx)
                 IN IF font.some
                    THEN [st EXCEPT !.fonts = @ \cup {font.val}]
                    ELSE st
            ELSE st
       ELSE IF contains(st.section, kw_events)
       THEN IF starts_with(lower, kw_format)
            THEN [st EXCEPT !.event_text_idx =
                                position(parse_format(line, 7), kw_text)]
            ELSE IF starts_with(lower, kw_dialogue) \/ starts_with(lower, kw_comment)
            THEN LET ev == extract_event_text(line, st.event_text_idx)
                     tags == parse_fn_tags(ev.text)
                 IN IF ev.panic \/ tags.panic
                    THEN [st EXCEPT !.panic = TRUE]
                    ELSE [st EXCEPT !.fonts = @ \cup Range(tags.res)]
            ELSE st
       ELSE st

RECURSIVE ass_lines(_, _)
ass_lines(st, ls) ==
    IF ls = <<>> \/ st.panic THEN st ELSE ass_lines(ass_line(st, Head(ls)), Tail(ls))

\* parse_ass_fonts(text): [panic, fonts]
parse_ass_fonts(text) ==
    LET st == ass_lines([fonts |-> {}, section |-> <<>>, style_font_idx |-> -1,
                         event_text_idx |-> -1, panic |-> FALSE], lines(text))
    IN [panic |-> st.panic, fonts |-> st.fonts]

\* ------------------------------------------------- font name table reader

\* read_u16_be / read_u32_be(data, offset): Option of the big-endian value
read_u16_be(data, offset) ==
    IF Len(data) < offset + 2 THEN None
    ELSE Some(data[offset + 1] * 256 + data[offset + 2])

read_u32_be(data, offset) ==
    IF Len(data) < offset + 4 THEN None
    ELSE Some(((data[offset + 1] * 256 + data[offset + 2]) * 256
                 + data[offset + 3]) * 256 + data[offset + 4])

unwrap_or(opt, d) == IF opt.some THEN opt.val ELSE d

\* the UTF-8 bytes of one code point (char::encode_utf8)
encode_utf8(cp) ==
    IF cp < 128 THEN <<cp>>
    ELSE IF cp < 2048 THEN <<192 + (cp \div 64), 128 + (cp % 64)>>
    ELSE IF cp < 65536
         THEN <<224 + (cp \div 4096), 128 + ((cp \div 64) % 64), 128 + (cp % 64)>>
    ELSE <<240 + (cp \div 262144), 128 + ((cp \div 4096) % 64),
           128 + ((cp \div 64) % 64), 128 + (cp % 64)>>

\* String::from_utf16_lossy: a surrogate pair is one character, an unpaired
\* surrogate becomes U+FFFD
RECURSIVE from_utf16_lossy(_)
from_utf16_lossy(buf) ==
    IF buf = <<>> THEN <<>>
    ELSE LET u == Head(buf)
         IN IF u \notin 55296..57343
            THEN encode_utf8(u) \o from_utf16_lossy(Tail(buf))
            ELSE IF u <= 56319 /\ Len(buf) >= 2 /\ buf[2] \in 56320..57343
            THEN encode_utf8(65536 + (u - 55296) * 1024 + (buf[2] - 56320))
                   \o from_utf16_lossy(Tail(Tail(buf)))
            ELSE <<239, 191, 189>> \o from_utf16_lossy(Tail(buf))

\* decode_utf16be(data): the code units of the byte pairs (an odd last byte is
\* left out), decoded lossily
decode_utf16be(data) ==
    from_utf16_lossy([k \in 1..(Len(data) \div 2) |->
                         data[2 * k - 1] * 256 + data[2 * k]])

tag_name == <<110, 97, 109, 101>>      \* b"name"
tag_ttcf == <<116, 116, 99, 102>>      \* b"ttcf"

\* a slice data[a..b] is in range (the source panics when it is not)
in_bounds(data, a, b) == a <= b /\ b <= Len(data)

\* the result of a reader function: panic, or the names read
Names(names) == [panic |-> FALSE, names |-> names]
ReaderPanic == [panic |-> TRUE, names |-> {}]

\* the table-directory loop of parse_otf_names_at from record i: panic, or
\* the (offset, length) of the first "name" record, None when the directory
\* ends or the buffer is too short for the next record
RECURSIVE find_name_table(_, _, _, _)
find_name_table(data, table_start, num_tables, i) ==
    LET rec == table_start + i * 16
    IN IF i >= num_tables \/ Len(data) < rec + 16 THEN [panic |-> FALSE, table |-> None]
       ELSE IF ~in_bounds(data, rec, rec + 4) THEN [panic |-> TRUE, table |-> None]
       ELSE IF Sub(data, rec, rec + 4) = tag_name
       THEN [panic |-> FALSE,
             table |-> Some(<<unwrap_or(read_u32_be(data, rec + 8), 0),
                              unwrap_or(read_u32_be(data, rec + 12), 0)>>)]
       ELSE find_name_table(data, table_start, num_tables, i + 1)

\* line 832: the record is passed over when its string ends past the buffer
\* or is empty (the first definition tests the length only)
skip_string_empty(data, str_end, length) == length = 0
skip_string(data, str_end, length) == Len(data) < str_end \/ length = 0

\* the name-record loop of parse_otf_names_at from record i
RECURSIVE name_records(_, _, _, _, _)
name_records(data, table_pos, string_offset, count, i) ==
    LET rec == table_pos + 6 + i * 12
    IN IF i >= count \/ Len(data) < rec + 12 THEN Names({})
       ELSE LET platform == unwrap_or(read_u16_be(data, rec), 0)
                name_id == unwrap_or(read_u16_be(data, rec + 6), 0)
                length == unwrap_or(read_u16_be(data, rec + 8), 0)
                offset_str == unwrap_or(read_u16_be(data, rec + 10), 0)
                str_start == table_pos + string_offset + offset_str
                str_end == str_start + length
                rest == name_records(data, table_pos, string_offset, count, i + 1)
            IN IF platform # 3 \/ (name_id # 1 /\ name_id # 4) THEN rest
               ELSE IF skip_string(data, str_end, length) THEN rest
               ELSE IF ~in_bounds(data, str_start, str_end) THEN ReaderPanic
               ELSE LET normalized ==
                          normalize_font_name(decode_utf16be(Sub(data, str_start, str_end)))
                    IN IF normalized.some /\ ~rest.panic
                       THEN Names({normalized.val} \cup rest.names)
                       ELSE rest

\* parse_otf_names_at(data, offset): panic, or the names of the font at
\* offset, a set (the source collects a HashSet into a Vec of unspecified
\* order)
parse_otf_names_at(data, offset) ==
    IF Len(data) < offset + 12 THEN Names({})
    ELSE LET num_tables == unwrap_or(read_u16_be(data, offset + 4), 0)
             name_table == find_name_table(data, offset + 12, num_tables, 0)
         IN IF name_table.panic THEN ReaderPanic
            ELSE IF ~name_table.table.some THEN Names({})
            ELSE LET table_pos == offset + name_table.table.val[1]
                     length == name_table.table.val[2]
                 IN IF Len(data) < table_pos + length \/ Len(data) < table_pos + 6
                    THEN Names({})
                    ELSE name_records(data, table_pos,
                                      unwrap_or(read_u16_be(data, table_pos + 4), 0),
                                      unwrap_or(read_u16_be(data, table_pos + 2), 0), 0)

Min(a, b) == IF a < b THEN a ELSE b

\* parse_ttc_offsets(data): the loop reads an offset at 12 + 4k for each
\* k < num_fonts and skips the reads past the end of the buffer, so the offsets
\* read are those of the k below (len - 12) div 4
parse_ttc_offsets(data) ==
    IF Len(data) < 12 THEN <<>>
    ELSE LET num_fonts == unwrap_or(read_u32_be(data, 8), 0)
             n == Min(num_fonts, (Len(data) - 12) \div 4)
         IN [k \in 1..n |-> read_u32_be(data, 12 + 4 * (k - 1)).val]

parse_font_names_from_bytes(data) ==
    IF Len(data) < 4 THEN Names({})
    ELSE IF ~in_bounds(data, 0, 4) THEN ReaderPanic
    ELSE IF Sub(data, 0, 4) = tag_ttcf
    THEN LET fonts == {parse_otf_names_at(data, offset) :
                          offset \in Range(parse_ttc_offsets(data))}
         IN IF \E font \in fonts : font.panic THEN ReaderPanic
            ELSE Names(UNION {font.names : font \in fonts})
    ELSE parse_otf_names_at(data, 0)

\* ------------------------------------------------------- text decoding

\* String::from_utf8: the bytes when they are well-formed UTF-8
RECURSIVE valid_utf8(_)
valid_utf8(b) ==
    IF b = <<>> THEN TRUE
    ELSE LET c == Head(b)
             cont(i) == Len(b) >= i /\ b[i] \in 128..191
         IN IF c < 128 THEN valid_utf8(Tail(b))
            ELSE IF c \in 194..223 THEN cont(2) /\ valid_utf8(From(b, 2))
            ELSE IF c \in 224..239
            THEN /\ cont(2) /\ cont(3)
                 /\ (c = 224 => b[2] >= 160)
                 /\ (c = 237 => b[2] <= 159)
                 /\ valid_utf8(From(b, 3))
            ELSE IF c \in 240..244
            THEN /\ cont(2) /\ cont(3) /\ cont(4)
                 /\ (c = 240 => b[2] >= 144)
                 /\ (c = 244 => b[2] <= 143)
                 /\ valid_utf8(From(b, 4))
            ELSE FALSE

from_utf8(b) == IF valid_utf8(b) THEN Some(b) ELSE None

\* decode_utf16(data, little_endian): None for an odd number of bytes
decode_utf16(data, little_endian) ==
    IF Len(data) % 2 # 0 THEN None
    ELSE Some(from_utf16_lossy([k \in 1..(Len(data) \div 2) |->
                 IF little_endian THEN data[2 * k] * 256 + data[2 * k - 1]
                 ELSE data[2 * k - 1] * 256 + data[2 * k]]))

\* read_text on the bytes fs::read returned
read_text_bytes(data) ==
    IF starts_with(data, <<255, 254>>) THEN decode_utf16(From(data, 2), TRUE)
    ELSE IF starts_with(data, <<254, 255>>) THEN decode_utf16(From(data, 2), FALSE)
    ELSE IF starts_with(data, <<239, 187, 191>>) THEN from_utf8(From(data, 3))
    ELSE from_utf8(data)

\* ------------------------------------------------------- file classifier

\* Path::extension lower-cased: the part of the file name after its last '.',
\* None when the name has no '.' or only a leading one
RECURSIVE last_index(_, _)
last_index(s, c) ==
    IF s = <<>> THEN -1
    ELSE IF s[Len(s)] = c THEN Len(s) - 1
    ELSE last_index(SubSeq(s, 1, Len(s) - 1), c)

file_name(path) == From(path, last_index(path, 47) + 1)

extension_lower(path) ==
    LET name == file_name(path)
        dot == last_index(name, 46)
    IN IF dot <= 0 THEN None ELSE Some(to_lowercase(From(name, dot + 1)))

SubExts == {<<97, 115, 115>>, <<115, 115, 97>>, <<115, 114, 116>>,
            <<118, 116, 116>>, <<115, 117, 98>>, <<105, 100, 120>>,
            <<115, 117, 112>>}            \* ass ssa srt vtt sub idx sup
AssExts == {<<97, 115, 115>>, <<115, 115, 97>>}                       \* ass ssa
FontExts == {<<116, 116, 102>>, <<111, 116, 102>>, <<116, 116, 99>>}  \* ttf otf ttc

is_sub_file(path) ==
    LET ext == extension_lower(path) IN ext.some /\ ext.val \in SubExts
is_ass_file(path) ==
    LET ext == extension_lower(path) IN ext.some /\ ext.val \in AssExts
is_font_file(path) ==
    LET ext == extension_lower(path) IN ext.some /\ ext.val \in FontExts

\* --------------------------------------------------- the files on disk

p_dir == <<100>>                                  \* "d", a directory
p_font_a == <<100, 47, 97, 46, 116, 116, 102>>    \* "d/a.ttf"
p_font_b == <<100, 47, 98, 46, 79, 84, 70>>       \* "d/b.OTF"
p_sub == <<115, 46, 97, 115, 115>>                \* "s.ass"
p_bad == <<99, 46, 83, 83, 65>>                   \* "c.SSA"
p_srt == <<117, 46, 115, 114, 116>>               \* "u.srt"

FontFiles == {p_font_a, p_font_b}
Files == FontFiles \cup {p_sub, p_bad, p_srt}
Dirs == {p_dir}
Versions == {1, 2}

is_file(path) == path \in Files
is_dir(path) == path \in Dirs

\* fs::read_dir(dir), in the order the system lists the entries
read_dir(dir) == IF dir = p_dir THEN <<p_font_a, p_font_b>> ELSE <<>>

\* The subtitle files. s.ass:
\*   [V4+ Styles] / Style: D,Ab / [Events] / Format: Text / Dialogue: 0,{\fnC}x
\* c.SSA:  [Events] / Comment:
SubData(path) ==
    IF path = p_sub
    THEN <<91, 86, 52, 43, 32, 83, 116, 121, 108, 101, 115, 93, 10,
           83, 116, 121, 108, 101, 58, 32, 68, 44, 65, 98, 10,
           91, 69, 118, 101, 110, 116, 115, 93, 10,
           70, 111, 114, 109, 97, 116, 58, 32, 84, 101, 120, 116, 10,
           68, 105, 97, 108, 111, 103, 117, 101, 58, 32, 48, 44,
           123, 92, 102, 110, 67, 125, 120, 10>>
    ELSE IF path = p_bad
    THEN <<91, 69, 118, 101, 110, 116, 115, 93, 10,
           67, 111, 109, 109, 101, 110, 116, 58>>
    ELSE <<49>>

\* The font files, each an sfnt with one table, "name". Version 1 of d/a.ttf
\* holds the family name "AB", version 2 the full name "C"; version 1 of
\* d/b.OTF holds "ab" and "C", version 2 holds "ab" as a Macintosh-platform
\* record only.
sfnt_head == <<0, 1, 0, 0, 0, 1, 0, 0, 0, 0, 0, 0, 110, 97, 109, 101, 0, 0, 0, 0,
               0, 0, 0, 28>>

FontData(path, version) ==
    IF path = p_font_a /\ version = 1
    THEN sfnt_head \o <<0, 0, 0, 22, 0, 0, 0, 1, 0, 18,
                        0, 3, 0, 1, 4, 9, 0, 1, 0, 4, 0, 0, 0, 65, 0, 66>>
    ELSE IF path = p_font_a
    THEN sfnt_head \o <<0, 0, 0, 20, 0, 0, 0, 1, 0, 18,
                        0, 3, 0, 1, 4, 9, 0, 4, 0, 2, 0, 0, 0, 67>>
    ELSE IF version = 1
    THEN sfnt_head \o <<0, 0, 0, 36, 0, 0, 0, 2, 0, 30,
                        0, 3, 0, 1, 4, 9, 0, 1, 0, 4, 0, 0,
                        0, 3, 0, 1, 4, 9, 0, 4, 0, 2, 0, 4, 0, 97, 0, 98, 0, 67>>
    ELSE sfnt_head \o <<0, 0, 0, 22, 0, 0, 0, 1, 0, 18,
                        0, 1, 0, 1, 4, 9, 0, 1, 0, 4, 0, 0, 0, 97, 0, 98>>

\* what the two readers return for each file content, computed once (the
\* font reader returns for each of these files)
FontNames == [path \in FontFiles |->
                [version \in Versions |->
                    parse_font_names_from_bytes(FontData(path, version)).names]]
SubFonts == [path \in {p_sub, p_bad} |->
                LET text == read_text_bytes(SubData(path))
                IN IF text.some THEN parse_ass_fonts(text.val)
                   ELSE [panic |-> FALSE, fonts |-> {}]]

\* ------------------------------------------------------------- bounds

MaxLogs == 2        \* notices (enqueued, busy, nothing pending) are logged while
                    \* logs is shorter than this
MaxOps == 2         \* operations started
MaxRefs == 2        \* activations of a font file by other programs before the
                    \* program starts
MaxTick == 2        \* file times run from -1 (before the epoch) to MaxTick
TicksPerSec == 2    \* clock ticks per second (Duration::as_secs drops the rest)

Ticks == (-1)..MaxTick

MaxName == 4        \* bytes of a raw font name given to normalize_font_name
MaxPokes == 1       \* bytes of a font file overwritten before it is read
MaxLines == 3       \* lines of a subtitle text given to parse_ass_fonts
MaxCalls == 2
MaxPieces == 5      \* pieces of a payload       \* calls of normalize_font_name in a row, each on the name
                    \* the call before returned

\* --------------------------------------------------------------- state

VARIABLES
    mode,           \* FontLoaderApp.mode: "NoResidue" | "Normal"
    logs,           \* FontLoaderApp.logs
    busy,           \* FontLoaderApp.busy
    worker_rx,      \* FontLoaderApp.worker_rx: 0 for None, else the channel
    last_summary,   \* FontLoaderApp.last_summary: Option<ProcessResult>
    pending_paths,  \* FontLoaderApp.pending_paths
    app,            \* "running" | "sweep" (in on_exit, guard held) |
                    \* "closing" (on_exit has returned; the threads run
                    \* on until the process ends)
    exit_todo,      \* on_exit: the registry paths its loop has yet to visit
    exit_count,     \* on_exit: count
    loaded,         \* AppState.loaded, the registry
    lock_owner,     \* the registry mutex: 0 free, -1 on_exit, else the worker
    poisoned,       \* the registry mutex is poisoned
    chans,          \* the mpsc channels made so far: [msgs, tx, rx]
    workers,        \* the threads spawned so far: [kind, pc, chan, l]
    os_refs,        \* the system's activation count of each font file
    fver,           \* the content (version) of each font file
    ftick,          \* the modification time of each font file, in ticks
    cache_disk,     \* cache.json: [state: "absent" | "corrupt" | "ok", entries]
    trace,          \* history: the system calls and per-name outcomes so far
    input,          \* a parser or reader called on its own: its argument ...
    output          \* ... and what its calls returned, in order

feVars == <<mode, logs, busy, worker_rx, last_summary, pending_paths>>
exitVars == <<app, exit_todo, exit_count>>
regVars == <<loaded, lock_owner, poisoned>>
envVars == <<os_refs, fver, ftick, cache_disk>>
vars == <<mode, logs, busy, worker_rx, last_summary, pending_paths,
          app, exit_todo, exit_count, loaded, lock_owner, poisoned,
          chans, workers, os_refs, fver, ftick, cache_disk, trace,
          input, output>>
fnVars == <<input, output>>
progVars == <<feVars, exitVars, regVars, envVars, chans, workers, trace>>

\* a history event
Ev(ev, by, path, ok, arg) ==
    [ev |-> ev, by |-> by, path |-> path, ok |-> ok, arg |-> arg]

\* ------------------------------------------------- font index and cache

\* metadata_mtime(path): whole seconds since the epoch, None for a time
\* before it
metadata_mtime(path) ==
    IF ftick[path] < 0 THEN None ELSE Some(ftick[path] \div TicksPerSec)

\* parse_font_names(path): the reader on the bytes fs::read returns now
parse_font_names(path) == FontNames[path][fver[path]]

\* what one index build sees of the font files: the reader's names, the time
\* and (history) the content version of each
fs_now ==
    [path \in FontFiles |-> [names |-> parse_font_names(path),
                             mtime |-> metadata_mtime(path),
                             ver |-> fver[path]]]

\* CacheEntry; ver is history: the content the names were read from
CacheEntry(modified, names, ver) ==
    [modified |-> modified, names |-> names, ver |-> ver]

\* line 548: the entry is used when the file's time equals the stored one
\* (the first definition uses every entry)
cache_fresh_always(mtime, entry) == TRUE
cache_fresh(mtime, entry) == mtime = Some(entry.modified)

\* lines 552-558 and 563-569: the entry stored after a fresh read (the first
\* definition stores the entry without the names)
cache_store_empty(file, names) ==
    CacheEntry(unwrap_or(file.mtime, 0), {}, file.ver)
cache_store(file, names) ==
    CacheEntry(unwrap_or(file.mtime, 0), names, file.ver)

\* the key of a declared name (line 576) and of a required name (line 461);
\* the first definition keys the index by the name as declared
index_key_exact(name) == name
index_key(name) == to_lowercase(name)
lookup_key(font) == to_lowercase(font)

\* lines 546-574: the names of one file and the cache after it (the first
\* definition takes the cached branch whatever use_cache is)
index_names_cached(path, use_cache, cache, fs) ==
    IF path \in DOMAIN cache /\ cache_fresh(fs[path].mtime, cache[path])
    THEN [names |-> cache[path].names, cache |-> cache]
    ELSE [names |-> fs[path].names,
          cache |-> (path :> cache_store(fs[path], fs[path].names)) @@ cache]
index_names(path, use_cache, cache, fs) ==
    IF use_cache
    THEN IF path \in DOMAIN cache /\ cache_fresh(fs[path].mtime, cache[path])
         THEN [names |-> cache[path].names, cache |-> cache]
         ELSE [names |-> fs[path].names,
               cache |-> (path :> cache_store(fs[path], fs[path].names)) @@ cache]
    ELSE [names |-> fs[path].names, cache |-> cache]

\* lines 575-578: path is pushed onto the list of its key once per name
index_push(index, names, path) ==
    LET keys == {index_key(n) : n \in names}
        pushed(k) == [i \in 1..Cardinality({n \in names : index_key(n) = k}) |-> path]
    IN [k \in DOMAIN index \cup keys |->
          (IF k \in DOMAIN index THEN index[k] ELSE <<>>)
            \o (IF k \in keys THEN pushed(k) ELSE <<>>)]

\* the loop of build_font_index over font_files; acc is [index, cache, used],
\* used (history) the names taken for each file
RECURSIVE build_from(_, _, _, _)
build_from(font_files, use_cache, acc, fs) ==
    IF font_files = <<>> THEN acc
    ELSE LET path == Head(font_files)
             got == index_names(path, use_cache, acc.cache, fs)
         IN build_from(Tail(font_files), use_cache,
                [index |-> index_push(acc.index, got.names, path),
                 cache |-> got.cache,
                 used |-> (path :> got.names) @@ acc.used], fs)

build_font_index(font_files, use_cache, cache, fs) ==
    build_from(font_files, use_cache,
               [index |-> <<>>, cache |-> cache, used |-> <<>>], fs)

\* load_cache_file: an absent or undeserializable file is the empty cache
load_cache_file == IF cache_disk.state = "ok" THEN cache_disk.entries ELSE <<>>

\* save_cache_file writes the whole cache
saved_cache(cache) == [state |-> "ok", entries |-> cache]

\* ------------------------------------------------------- collect_files

RECURSIVE walk_entries(_)
walk_dir(dir) == walk_entries(read_dir(dir))
walk_entries(entries) ==
    IF entries = <<>> THEN <<>>
    ELSE LET path == Head(entries)
         IN (IF is_dir(path) THEN walk_dir(path)
             ELSE IF is_file(path) THEN <<path>> ELSE <<>>)
            \o walk_entries(Tail(entries))

RECURSIVE collect_files(_)
collect_files(paths) ==
    IF paths = <<>> THEN <<>>
    ELSE LET path == Head(paths)
         IN (IF is_file(path) THEN <<path>>
             ELSE IF is_dir(path) THEN walk_dir(path) ELSE <<>>)
            \o collect_files(Tail(paths))

\* ------------------------------------------------------------ channels

\* mpsc::channel(): a new channel; the receiver worker_rx held is dropped
\* when the field is overwritten
drop_rx(cs, rx) == IF rx = 0 THEN cs ELSE [cs EXCEPT ![rx].rx = FALSE]

\* thread::spawn of a worker with a new channel, after
\* self.worker_rx = Some(rx); self.busy = true
spawn(kind, l) ==
    /\ chans' = Append(drop_rx(chans, worker_rx),
                       [msgs |-> <<>>, tx |-> TRUE, rx |-> TRUE])
    /\ worker_rx' = Len(chans) + 1
    /\ busy' = TRUE
    /\ workers' = Append(workers,
                         [kind |-> kind, pc |-> "start", chan |-> Len(chans) + 1,
                          l |-> l])

\* let _ = tx.send(msg) at the end of the thread's closure: the message is
\* queued while the receiver lives, and the sender is dropped
sent(cs, c, msg) ==
    [cs EXCEPT ![c] = [msgs |-> IF @.rx THEN Append(@.msgs, msg) ELSE @.msgs,
                       tx |-> FALSE, rx |-> @.rx]]

Msg(kind, ok, res) == [kind |-> kind, ok |-> ok, res |-> res]

\* "状态锁失败", the error of a failed state.lock()
LockError == "state lock failed"

\* ------------------------------------------------------------ front end

\* the bounds on the requests
CanLog == Len(logs) < MaxLogs
CanSpawn == Len(workers) < MaxOps

\* the busy test that opens handle_process_pending, handle_unload,
\* handle_clean; the first definition is the test left out
is_busy_never == FALSE
is_busy == busy

\* the paths of an enqueue_paths call
EnqueueInputs == {<<p_sub>>, <<p_bad>>, <<p_srt, p_dir>>, <<p_sub, p_font_b>>}

RECURSIVE push_new(_, _)
push_new(pending, paths) ==
    IF paths = <<>> THEN pending
    ELSE push_new(IF Head(paths) \in Range(pending) THEN pending
                  ELSE Append(pending, Head(paths)), Tail(paths))

enqueue_paths(paths) ==
    /\ app = "running"
    /\ CanLog
    /\ LET pushed == push_new(pending_paths, paths)
           added == Len(pushed) - Len(pending_paths)
       IN /\ pending_paths' = pushed
          /\ logs' = IF added > 0 THEN Append(logs, <<"added", added>>) ELSE logs
    /\ UNCHANGED <<mode, busy, worker_rx, last_summary, chans, workers>>
    /\ UNCHANGED <<exitVars, regVars, envVars, trace>>
    /\ UNCHANGED fnVars

\* lines 148-166 (the first definition leaves pending_paths as it is)
handle_process_keep ==
    /\ app = "running"
    /\ IF is_busy
       THEN /\ CanLog
            /\ logs' = Append(logs, <<"busy">>)
            /\ UNCHANGED <<pending_paths, busy, worker_rx, chans, workers>>
       ELSE IF pending_paths = <<>>
       THEN /\ CanLog
            /\ logs' = Append(logs, <<"nothing pending">>)
            /\ UNCHANGED <<pending_paths, busy, worker_rx, chans, workers>>
       ELSE /\ CanSpawn
            /\ pending_paths' = pending_paths
            /\ spawn("process", [paths |-> pending_paths,
                                 use_cache |-> (mode = "Normal")])
            /\ UNCHANGED logs
    /\ UNCHANGED <<mode, last_summary, exitVars, regVars, envVars, trace>>
    /\ UNCHANGED fnVars
handle_process_pending ==
    /\ app = "running"
    /\ IF is_busy
       THEN /\ CanLog
            /\ logs' = Append(logs, <<"busy">>)
            /\ UNCHANGED <<pending_paths, busy, worker_rx, chans, workers>>
       ELSE IF pending_paths = <<>>
       THEN /\ CanLog
            /\ logs' = Append(logs, <<"nothing pending">>)
            /\ UNCHANGED <<pending_paths, busy, worker_rx, chans, workers>>
       ELSE /\ CanSpawn
            /\ pending_paths' = <<>>
            /\ spawn("process", [paths |-> pending_paths,
                                 use_cache |-> (mode = "Normal")])
            /\ UNCHANGED logs
    /\ UNCHANGED <<mode, last_summary, exitVars, regVars, envVars, trace>>
    /\ UNCHANGED fnVars

handle_unload ==
    /\ app = "running"
    /\ IF is_busy
       THEN /\ CanLog
            /\ logs' = Append(logs, <<"busy">>)
            /\ UNCHANGED <<busy, worker_rx, chans, workers>>
       ELSE /\ CanSpawn
            /\ spawn("unload", <<>>)
            /\ UNCHANGED logs
    /\ UNCHANGED <<mode, last_summary, pending_paths>>
    /\ UNCHANGED <<exitVars, regVars, envVars, trace>>
    /\ UNCHANGED fnVars

handle_clean(folder) ==
    /\ app = "running"
    /\ IF is_busy
       THEN /\ CanLog
            /\ logs' = Append(logs, <<"busy">>)
            /\ UNCHANGED <<busy, worker_rx, chans, workers>>
       ELSE /\ CanSpawn
            /\ logs' = Append(logs, <<"cleaning", folder>>)
            /\ spawn("clean", [folder |-> folder])
    /\ UNCHANGED <<mode, last_summary, pending_paths>>
    /\ UNCHANGED <<exitVars, regVars, envVars, trace>>
    /\ UNCHANGED fnVars

\* the match of poll_worker on one message: the front-end fields after it
EmptySummary ==
    [loaded |-> 0, failed |-> 0, missing |-> 0, duplicates |-> 0,
     subs |-> 0, fonts |-> 0, logs |-> <<>>]

poll_msg(fe, msg) ==
    IF ~msg.ok
    THEN [fe EXCEPT !.logs = Append(@, <<"error", msg.res>>)]
    ELSE IF msg.kind = "Process"
    THEN [logs |-> (fe.logs \o msg.res.logs)
                     \o <<<<"done", msg.res.subs, msg.res.fonts, msg.res.loaded,
                            msg.res.failed, msg.res.missing, msg.res.duplicates>>>>,
          last_summary |-> Some(msg.res)]
    ELSE IF msg.kind = "Unload"
    THEN [logs |-> Append(fe.logs, <<"unloaded", msg.res.count>>),
          last_summary |-> Some(EmptySummary)]
    ELSE [fe EXCEPT !.logs = Append(@, <<"cleaned", msg.res.count>>)]

RECURSIVE poll_msgs(_, _)
poll_msgs(fe, msgs) ==
    IF msgs = <<>> THEN fe ELSE poll_msgs(poll_msg(fe, Head(msgs)), Tail(msgs))

\* poll_worker: try_recv until the channel is empty or disconnected
poll_worker ==
    /\ app = "running"
    /\ IF worker_rx = 0
       THEN UNCHANGED <<logs, busy, worker_rx, last_summary, chans>>
       ELSE LET msgs == chans[worker_rx].msgs
                fe == poll_msgs([logs |-> logs, last_summary |-> last_summary], msgs)
                finished == msgs # <<>>
            IN /\ logs' = fe.logs
               /\ last_summary' = fe.last_summary
               /\ busy' = IF finished THEN FALSE ELSE busy
               /\ worker_rx' = IF finished THEN 0 ELSE worker_rx
               /\ chans' = [chans EXCEPT ![worker_rx] =
                               [msgs |-> <<>>, tx |-> @.tx, rx |-> ~finished]]
    /\ UNCHANGED <<mode, pending_paths, workers>>
    /\ UNCHANGED <<exitVars, regVars, envVars, trace>>
    /\ UNCHANGED fnVars

\* the mode radio buttons
set_mode(m) ==
    /\ app = "running"
    /\ mode # m
    /\ mode' = m
    /\ UNCHANGED <<logs, busy, worker_rx, last_summary, pending_paths>>
    /\ UNCHANGED <<exitVars, regVars, envVars, chans, workers, trace>>
    /\ UNCHANGED fnVars

\* ------------------------------------------------- the registry mutex

\* Mutex::lock blocks until no thread holds the guard ... (the first
\* definition never blocks)
can_lock_always == TRUE
can_lock == lock_owner = 0
\* ... and returns Err when the mutex is poisoned (the first definition
\* takes the guard out of the error)
lock_ok_always == TRUE
lock_ok == ~poisoned

\* -------------------------------------------------------- system calls

\* remove_font_resource(path): RemoveFontResourceW fails on a file that is
\* not activated
remove_ok(path) == os_refs[path] > 0

\* the thread w of the step, and the update of its record
Worker(w, kind, pc) ==
    /\ w \in 1..Len(workers)
    /\ workers[w].kind = kind
    /\ workers[w].pc = pc

Goto(w, pc, l) == workers' = [workers EXCEPT ![w] = [@ EXCEPT !.pc = pc, !.l = l]]

\* ------------------------------------------------- process_drop_worker

only_font_file(path) == ~is_sub_file(path) /\ is_font_file(path)
not_ass_file(path) == ~is_ass_file(path)

\* lines 415-453: everything before state.lock()
ProcPrepare(w) ==
    /\ Worker(w, "process", "start")
    /\ LET use_cache == workers[w].l.use_cache
           file_list == collect_files(workers[w].l.paths)
           sub_files == SelectSeq(file_list, is_sub_file)
           font_files == SelectSeq(file_list, only_font_file)
           ass_files == SelectSeq(sub_files, is_ass_file)
           unsupported_subs == SelectSeq(sub_files, not_ass_file)
           cache == IF use_cache THEN load_cache_file ELSE <<>>
           built == build_font_index(font_files, use_cache, cache, fs_now)
       IN IF \E i \in 1..Len(ass_files) : SubFonts[ass_files[i]].panic
          THEN \* parse_ass_fonts panics: the thread unwinds and drops tx
               /\ Goto(w, "panicked", <<>>)
               /\ chans' = [chans EXCEPT ![workers[w].chan].tx = FALSE]
               /\ UNCHANGED cache_disk
          ELSE /\ Goto(w, "lock",
                    [use_cache |-> use_cache,
                     required |-> UNION {SubFonts[ass_files[i]].fonts :
                                            i \in 1..Len(ass_files)},
                     index |-> built.index,
                     used |-> built.used,
                     font_files |-> font_files,
                     cache_before |-> cache,
                     cache_after |-> built.cache,
                     fs |-> fs_now,
                     loaded |-> 0, failed |-> 0, missing |-> 0, duplicates |-> 0,
                     subs |-> Len(sub_files), fonts |-> Len(font_files),
                     logs |-> [i \in 1..Len(unsupported_subs) |->
                                  <<"skipped", unsupported_subs[i]>>]])
               /\ UNCHANGED chans
               \* let _ = save_cache_file(&cache): a failed write is ignored
               /\ \E save_ok \in (IF use_cache THEN BOOLEAN ELSE {FALSE}) :
                     cache_disk' = IF save_ok THEN saved_cache(built.cache)
                                   ELSE cache_disk
    /\ UNCHANGED <<feVars, exitVars, regVars, os_refs, fver, ftick, trace>>
    /\ UNCHANGED fnVars

\* line 459: state.lock().map_err(..)?
ProcLock(w) ==
    /\ Worker(w, "process", "lock")
    /\ can_lock
    /\ IF lock_ok
       THEN /\ lock_owner' = w
            /\ Goto(w, "loop", workers[w].l)
            /\ UNCHANGED <<chans, trace>>
       ELSE /\ Goto(w, "done", <<>>)
            /\ chans' = sent(chans, workers[w].chan, Msg("Process", FALSE, LockError))
            /\ trace' = Append(trace, Ev("lock failed", w, <<>>, FALSE, <<>>))
            /\ UNCHANGED lock_owner
    /\ UNCHANGED <<feVars, exitVars, loaded, poisoned, envVars>>
    /\ UNCHANGED fnVars

\* font_index.get(&key) followed by files.first() (the first definition
\* takes the last file of the list)
first_candidate_last(index, key) ==
    IF key \in DOMAIN index /\ index[key] # <<>>
    THEN Some(index[key][Len(index[key])]) ELSE None
first_candidate(index, key) ==
    IF key \in DOMAIN index /\ index[key] # <<>> THEN Some(index[key][1]) ELSE None

\* line 465; the first definition is the test left out
registry_contains_never(path) == FALSE
registry_contains(path) == path \in loaded

\* lines 462-483: the outcome of one required name; activated is the result
\* of add_font_resource, called only on the third branch (the first
\* definition counts a name without candidate as failed, the second a
\* failed activation as loaded)
classify_loaded(candidate, in_registry, activated) ==
    IF ~candidate.some THEN "missing"
    ELSE IF in_registry THEN "duplicate"
    ELSE "loaded"
classify_failed(candidate, in_registry, activated) ==
    IF ~candidate.some THEN "failed"
    ELSE IF in_registry THEN "duplicate"
    ELSE IF activated THEN "loaded"
    ELSE "failed"
classify(candidate, in_registry, activated) ==
    IF ~candidate.some THEN "missing"
    ELSE IF in_registry THEN "duplicate"
    ELSE IF activated THEN "loaded"
    ELSE "failed"

\* lines 460-484: one iteration over required_fonts (a HashSet: any order)
\* (the first definition leaves the log line of a duplicate out)
ProcNameUnlogged(w) ==
    /\ Worker(w, "process", "loop")
    /\ \E font \in workers[w].l.required, activated \in BOOLEAN :
         LET l == workers[w].l
             candidate == first_candidate(l.index, lookup_key(font))
             path == candidate.val
             in_registry == candidate.some /\ registry_contains(path)
             calls == candidate.some /\ ~in_registry
             outcome == classify(candidate, in_registry, activated)
             rest == [l EXCEPT !.required = @ \ {font}]
         IN /\ calls \/ activated
            /\ loaded' = IF outcome = "loaded" THEN loaded \cup {path} ELSE loaded
            /\ os_refs' = IF calls /\ activated
                          THEN [os_refs EXCEPT ![path] = @ + 1] ELSE os_refs
            /\ trace' = trace
                 \o (IF calls THEN <<Ev("activate", w, path, activated, font)>>
                     ELSE <<>>)
                 \o <<Ev(outcome, w, path, TRUE, font)>>
            /\ Goto(w, "loop",
                 CASE outcome = "duplicate" ->
                        [rest EXCEPT !.duplicates = @ + 1]
                   [] outcome = "loaded" ->
                        [rest EXCEPT !.loaded = @ + 1,
                                     !.logs = Append(@, <<"ok", font, path>>)]
                   [] outcome = "failed" ->
                        [rest EXCEPT !.failed = @ + 1,
                                     !.logs = Append(@, <<"failed", font, path>>)]
                   [] OTHER ->
                        [rest EXCEPT !.missing = @ + 1,
                                     !.logs = Append(@, <<"missing", font>>)])
    /\ UNCHANGED <<feVars, exitVars, lock_owner, poisoned, chans>>
    /\ UNCHANGED <<fver, ftick, cache_disk>>
    /\ UNCHANGED fnVars
ProcName(w) ==
    /\ Worker(w, "process", "loop")
    /\ \E font \in workers[w].l.required, activated \in BOOLEAN :
         LET l == workers[w].l
             candidate == first_candidate(l.index, lookup_key(font))
             path == candidate.val
             in_registry == candidate.some /\ registry_contains(path)
             calls == candidate.some /\ ~in_registry
             outcome == classify(candidate, in_registry, activated)
             rest == [l EXCEPT !.required = @ \ {font}]
         IN /\ calls \/ activated
            /\ loaded' = IF outcome = "loaded" THEN loaded \cup {path} ELSE loaded
            /\ os_refs' = IF calls /\ activated
                          THEN [os_refs EXCEPT ![path] = @ + 1] ELSE os_refs
            /\ trace' = trace
                 \o (IF calls THEN <<Ev("activate", w, path, activated, font)>>
                     ELSE <<>>)
                 \o <<Ev(outcome, w, path, TRUE, font)>>
            /\ Goto(w, "loop",
                 CASE outcome = "duplicate" ->
                        [rest EXCEPT !.duplicates = @ + 1,
                                     !.logs = Append(@, <<"duplicate", font, path>>)]
                   [] outcome = "loaded" ->
                        [rest EXCEPT !.loaded = @ + 1,
                                     !.logs = Append(@, <<"ok", font, path>>)]
                   [] outcome = "failed" ->
                        [rest EXCEPT !.failed = @ + 1,
                                     !.logs = Append(@, <<"failed", font, path>>)]
                   [] OTHER ->
                        [rest EXCEPT !.missing = @ + 1,
                                     !.logs = Append(@, <<"missing", font>>)])
    /\ UNCHANGED <<feVars, exitVars, lock_owner, poisoned, chans>>
    /\ UNCHANGED <<fver, ftick, cache_disk>>
    /\ UNCHANGED fnVars

\* lines 486-498, the guard dropped on return, and tx.send of the closure
\* (the first definition leaves the broadcast out)
ProcFinishQuiet(w) ==
    /\ Worker(w, "process", "loop")
    /\ workers[w].l.required = {}
    /\ LET l == workers[w].l
       IN /\ trace' = Append(trace, Ev("process end", w, <<>>, TRUE, loaded))
          /\ chans' = sent(chans, workers[w].chan,
                 Msg("Process", TRUE,
                     [loaded |-> l.loaded, failed |-> l.failed, missing |-> l.missing,
                      duplicates |-> l.duplicates, subs |-> l.subs, fonts |-> l.fonts,
                      logs |-> l.logs]))
    /\ lock_owner' = 0
    /\ Goto(w, "done", <<>>)
    /\ UNCHANGED <<feVars, exitVars, loaded, poisoned, envVars>>
    /\ UNCHANGED fnVars
ProcFinish(w) ==
    /\ Worker(w, "process", "loop")
    /\ workers[w].l.required = {}
    /\ LET l == workers[w].l
       IN /\ trace' = (IF l.loaded > 0
                       THEN Append(trace, Ev("broadcast", w, <<>>, TRUE, <<>>))
                       ELSE trace)
                      \o <<Ev("process end", w, <<>>, TRUE, loaded)>>
          /\ chans' = sent(chans, workers[w].chan,
                 Msg("Process", TRUE,
                     [loaded |-> l.loaded, failed |-> l.failed, missing |-> l.missing,
                      duplicates |-> l.duplicates, subs |-> l.subs, fonts |-> l.fonts,
                      logs |-> l.logs]))
    /\ lock_owner' = 0
    /\ Goto(w, "done", <<>>)
    /\ UNCHANGED <<feVars, exitVars, loaded, poisoned, envVars>>
    /\ UNCHANGED fnVars

\* ------------------------------------------------- unload_fonts_worker

\* line 502
UnloadLock(w) ==
    /\ Worker(w, "unload", "start")
    /\ can_lock
    /\ IF lock_ok
       THEN /\ lock_owner' = w
            /\ Goto(w, "loop", [todo |-> loaded, removed |-> {}, count |-> 0])
            /\ trace' = Append(trace, Ev("unload begin", w, <<>>, TRUE, loaded))
            /\ UNCHANGED chans
       ELSE /\ Goto(w, "done", <<>>)
            /\ chans' = sent(chans, workers[w].chan, Msg("Unload", FALSE, LockError))
            /\ trace' = Append(trace, Ev("lock failed", w, <<>>, FALSE, <<>>))
            /\ UNCHANGED lock_owner
    /\ UNCHANGED <<feVars, exitVars, loaded, poisoned, envVars>>
    /\ UNCHANGED fnVars

\* lines 505-510: one iteration over state.loaded (a HashSet: any order)
UnloadRemove(w) ==
    /\ Worker(w, "unload", "loop")
    /\ \E path \in workers[w].l.todo :
         LET l == workers[w].l
             ok == remove_ok(path)
         IN /\ os_refs' = IF ok THEN [os_refs EXCEPT ![path] = @ - 1] ELSE os_refs
            /\ trace' = Append(trace, Ev("deactivate", w, path, ok, <<>>))
            /\ Goto(w, "loop",
                    [todo |-> l.todo \ {path},
                     removed |-> IF ok THEN l.removed \cup {path} ELSE l.removed,
                     count |-> IF ok THEN l.count + 1 ELSE l.count])
    /\ UNCHANGED <<feVars, exitVars, regVars, fver, ftick, cache_disk, chans>>
    /\ UNCHANGED fnVars

\* lines 511-513: the registry after the removed paths are taken out; the
\* first definition clears it
unload_keep_none(registry, removed) == {}
unload_keep(registry, removed) == registry \ removed

\* lines 511-517, the guard dropped on return, and tx.send of the closure
\* (the first definition broadcasts whatever the count)
UnloadFinishLoud(w) ==
    /\ Worker(w, "unload", "loop")
    /\ workers[w].l.todo = {}
    /\ LET l == workers[w].l
       IN /\ loaded' = unload_keep(loaded, l.removed)
          /\ trace' = Append(trace, Ev("broadcast", w, <<>>, TRUE, <<>>))
                      \o <<Ev("unload end", w, <<>>, TRUE, loaded')>>
          /\ chans' = sent(chans, workers[w].chan,
                           Msg("Unload", TRUE, [count |-> l.count]))
    /\ lock_owner' = 0
    /\ Goto(w, "done", <<>>)
    /\ UNCHANGED <<feVars, exitVars, poisoned, envVars>>
    /\ UNCHANGED fnVars
UnloadFinish(w) ==
    /\ Worker(w, "unload", "loop")
    /\ workers[w].l.todo = {}
    /\ LET l == workers[w].l
       IN /\ loaded' = unload_keep(loaded, l.removed)
          /\ trace' = (IF l.count > 0
                       THEN Append(trace, Ev("broadcast", w, <<>>, TRUE, <<>>))
                       ELSE trace)
                      \o <<Ev("unload end", w, <<>>, TRUE, loaded')>>
          /\ chans' = sent(chans, workers[w].chan,
                           Msg("Unload", TRUE, [count |-> l.count]))
    /\ lock_owner' = 0
    /\ Goto(w, "done", <<>>)
    /\ UNCHANGED <<feVars, exitVars, poisoned, envVars>>
    /\ UNCHANGED fnVars

\* ------------------------------------------------- clean_folder_worker

\* lines 521-523
CleanWalk(w) ==
    /\ Worker(w, "clean", "start")
    /\ Goto(w, "loop", [files |-> walk_dir(workers[w].l.folder), count |-> 0])
    /\ UNCHANGED <<feVars, exitVars, regVars, envVars, chans, trace>>
    /\ UNCHANGED fnVars

\* lines 524-531: one test of is_font_file or one call of the while loop
\* (the first definition stays on the file after the call that failed, the
\* second calls remove_font_resource once for each file)
CleanRemoveStay(w) ==
    /\ Worker(w, "clean", "loop")
    /\ workers[w].l.files # <<>>
    /\ LET l == workers[w].l
           path == Head(l.files)
       IN IF ~is_font_file(path)
          THEN /\ Goto(w, "loop", [l EXCEPT !.files = Tail(@)])
               /\ UNCHANGED <<os_refs, trace>>
          ELSE IF remove_ok(path)
               THEN /\ trace' = Append(trace, Ev("deactivate", w, path, TRUE, <<>>))
                    /\ os_refs' = [os_refs EXCEPT ![path] = @ - 1]
                    /\ Goto(w, "loop", [l EXCEPT !.count = @ + 1])
               ELSE /\ Goto(w, "loop", l)
                    /\ UNCHANGED <<os_refs, trace>>
    /\ UNCHANGED <<feVars, exitVars, regVars, fver, ftick, cache_disk, chans>>
    /\ UNCHANGED fnVars
CleanRemoveOnce(w) ==
    /\ Worker(w, "clean", "loop")
    /\ workers[w].l.files # <<>>
    /\ LET l == workers[w].l
           path == Head(l.files)
       IN IF ~is_font_file(path)
          THEN /\ Goto(w, "loop", [l EXCEPT !.files = Tail(@)])
               /\ UNCHANGED <<os_refs, trace>>
          ELSE /\ trace' = Append(trace, Ev("deactivate", w, path, remove_ok(path), <<>>))
               /\ IF remove_ok(path)
                  THEN /\ os_refs' = [os_refs EXCEPT ![path] = @ - 1]
                       /\ Goto(w, "loop", [l EXCEPT !.count = @ + 1, !.files = Tail(@)])
                  ELSE /\ Goto(w, "loop", [l EXCEPT !.files = Tail(@)])
                       /\ UNCHANGED os_refs
    /\ UNCHANGED <<feVars, exitVars, regVars, fver, ftick, cache_disk, chans>>
    /\ UNCHANGED fnVars
CleanRemove(w) ==
    /\ Worker(w, "clean", "loop")
    /\ workers[w].l.files # <<>>
    /\ LET l == workers[w].l
           path == Head(l.files)
       IN IF ~is_font_file(path)
          THEN /\ Goto(w, "loop", [l EXCEPT !.files = Tail(@)])
               /\ UNCHANGED <<os_refs, trace>>
          ELSE /\ trace' = Append(trace, Ev("deactivate", w, path, remove_ok(path), <<>>))
               /\ IF remove_ok(path)
                  THEN /\ os_refs' = [os_refs EXCEPT ![path] = @ - 1]
                       /\ Goto(w, "loop", [l EXCEPT !.count = @ + 1])
                  ELSE /\ Goto(w, "loop", [l EXCEPT !.files = Tail(@)])
                       /\ UNCHANGED os_refs
    /\ UNCHANGED <<feVars, exitVars, regVars, fver, ftick, cache_disk, chans>>
    /\ UNCHANGED fnVars

\* lines 532-535 and tx.send of the closure
CleanFinish(w) ==
    /\ Worker(w, "clean", "loop")
    /\ workers[w].l.files = <<>>
    /\ trace' = IF workers[w].l.count > 0
                THEN Append(trace, Ev("broadcast", w, <<>>, TRUE, <<>>))
                ELSE trace
    /\ chans' = sent(chans, workers[w].chan,
                     Msg("Clean", TRUE, [count |-> workers[w].l.count]))
    /\ Goto(w, "done", <<>>)
    /\ UNCHANGED <<feVars, exitVars, regVars, envVars>>
    /\ UNCHANGED fnVars

\* ---------------------------------------------------------------- on_exit

\* line 396: if let Ok(state) = self.state.lock(); a poisoned mutex skips
\* the sweep
ExitLock ==
    /\ app = "running"
    /\ can_lock
    /\ IF lock_ok
       THEN /\ app' = "sweep"
            /\ lock_owner' = -1
            /\ exit_todo' = loaded
            /\ exit_count' = 0
       ELSE /\ app' = "closing"
            /\ UNCHANGED <<lock_owner, exit_todo, exit_count>>
    /\ UNCHANGED <<feVars, loaded, poisoned, envVars, chans, workers, trace>>
    /\ UNCHANGED fnVars

\* lines 398-402: one iteration over state.loaded
ExitSweep ==
    /\ app = "sweep"
    /\ \E path \in exit_todo :
         /\ exit_todo' = exit_todo \ {path}
         /\ exit_count' = IF remove_ok(path) THEN exit_count + 1 ELSE exit_count
         /\ os_refs' = IF remove_ok(path)
                       THEN [os_refs EXCEPT ![path] = @ - 1] ELSE os_refs
         /\ trace' = Append(trace, Ev("deactivate", -1, path, remove_ok(path), <<>>))
    /\ UNCHANGED <<feVars, app, regVars, fver, ftick, cache_disk, chans, workers>>
    /\ UNCHANGED fnVars

\* lines 403-406; eframe then drops the FontLoaderApp, and with it the
\* receiver in worker_rx (the fields of the dropped value are written as
\* FontLoaderApp::new sets them)
ExitEnd ==
    /\ app = "sweep"
    /\ exit_todo = {}
    /\ app' = "closing"
    /\ lock_owner' = 0
    /\ trace' = IF exit_count > 0
                THEN Append(trace, Ev("broadcast", -1, <<>>, TRUE, <<>>))
                ELSE trace
    /\ chans' = drop_rx(chans, worker_rx)
    /\ mode' = "NoResidue"
    /\ logs' = <<>>
    /\ busy' = FALSE
    /\ worker_rx' = 0
    /\ last_summary' = None
    /\ pending_paths' = <<>>
    /\ UNCHANGED <<exit_todo, exit_count, loaded, poisoned, envVars, workers>>
    /\ UNCHANGED fnVars

\* ------------------------------------------------------- environment

\* the font files other programs activate, deactivate and rewrite
ExternalFonts == {p_font_b}

\* another program deactivates a font file (its own activation or, as
\* clean_folder_worker does, any)
ExternalDeactivate(path) ==
    /\ app = "running"
    /\ os_refs[path] > 0
    /\ os_refs' = [os_refs EXCEPT ![path] = @ - 1]
    /\ UNCHANGED <<feVars, exitVars, regVars, fver, ftick, cache_disk, chans,
                   workers, trace>>
    /\ UNCHANGED fnVars

\* a font file is rewritten, or its time is set
ModifyFont(path, version, tick) ==
    /\ app = "running"
    /\ <<version, tick>> # <<fver[path], ftick[path]>>
    /\ fver' = [fver EXCEPT ![path] = version]
    /\ ftick' = [ftick EXCEPT ![path] = tick]
    /\ UNCHANGED <<feVars, exitVars, regVars, os_refs, cache_disk, chans,
                   workers, trace>>
    /\ UNCHANGED fnVars

\* cache.json is deleted or damaged
DamageCache(state) ==
    /\ app = "running"
    /\ cache_disk.state = "ok"
    /\ cache_disk' = [state |-> state, entries |-> <<>>]
    /\ UNCHANGED <<feVars, exitVars, regVars, os_refs, fver, ftick, chans,
                   workers, trace>>
    /\ UNCHANGED fnVars

\* ------------------------------------------------------ specifications

InitRest ==
    /\ mode = "NoResidue"
    /\ logs = <<>>
    /\ busy = FALSE
    /\ worker_rx = 0
    /\ last_summary = None
    /\ pending_paths = <<>>
    /\ app = "running"
    /\ exit_todo = {}
    /\ exit_count = 0
    /\ lock_owner = 0
    /\ chans = <<>>
    /\ workers = <<>>
    /\ fver = [path \in FontFiles |-> 1]
    /\ ftick = [path \in FontFiles |-> TicksPerSec]
    /\ cache_disk = [state |-> "absent", entries |-> <<>>]
    /\ trace = <<>>

\* the activations of other programs before the program starts
ExternalRefs(n) == [path \in FontFiles |-> IF path \in ExternalFonts THEN n ELSE 0]

\* main: AppState::default() in a new Mutex
Init ==
    /\ InitRest
    /\ loaded = {}
    /\ poisoned = FALSE
    /\ \E n \in 0..MaxRefs : os_refs = ExternalRefs(n)
    /\ input = <<>> /\ output = <<>>

\* The workers and on_exit called with any mutex, sound or poisoned. state is
\* the parameter of process_drop_worker and unload_fonts_worker; a poisoned
\* mutex guards any registry, its paths activated once by the program.
InitFault ==
    /\ InitRest
    /\ poisoned \in BOOLEAN
    /\ loaded \in (IF poisoned THEN SUBSET FontFiles ELSE {{}})
    /\ \E n \in 0..MaxRefs :
          os_refs = [path \in FontFiles |->
                       ExternalRefs(n)[path] + (IF path \in loaded THEN 1 ELSE 0)]
    /\ input = <<>> /\ output = <<>>

FrontEnd ==
    \/ \E paths \in EnqueueInputs : enqueue_paths(paths)
    \/ handle_process_pending
    \/ handle_unload
    \/ \E folder \in Dirs : handle_clean(folder)
    \/ poll_worker

Threads ==
    \/ \E w \in 1..Len(workers) : ProcPrepare(w)
    \/ \E w \in 1..Len(workers) : ProcLock(w)
    \/ \E w \in 1..Len(workers) : ProcName(w)
    \/ \E w \in 1..Len(workers) : ProcFinish(w)
    \/ \E w \in 1..Len(workers) : UnloadLock(w)
    \/ \E w \in 1..Len(workers) : UnloadRemove(w)
    \/ \E w \in 1..Len(workers) : UnloadFinish(w)
    \/ \E w \in 1..Len(workers) : CleanWalk(w)
    \/ \E w \in 1..Len(workers) : CleanRemove(w)
    \/ \E w \in 1..Len(workers) : CleanFinish(w)

Exit == ExitLock \/ ExitSweep \/ ExitEnd

Next ==
    \/ FrontEnd
    \/ Threads
    \/ Exit
    \/ \E path \in ExternalFonts : ExternalDeactivate(path)

\* The program in the mode it starts in, "NoResidue"; SpecIndex below has the
\* mode buttons and the cache.
Spec == Init /\ [][Next]_vars

\* The system runs a spawned thread until it returns, and eframe calls
\* update, and so poll_worker, on every frame while the window is open.
LiveSpec == Spec /\ WF_vars(Threads) /\ WF_vars(poll_worker)

SpecFault == InitFault /\ [][Next]_vars

\* The index builds of successive process operations over the folder d,
\* while other programs rewrite the font files and cache.json.
IndexInputs == {<<p_dir>>}

NextIndex ==
    \/ \E paths \in IndexInputs : enqueue_paths(paths)
    \/ handle_process_pending
    \/ poll_worker
    \/ \E m \in {"NoResidue", "Normal"} : set_mode(m)
    \/ \E w \in 1..Len(workers) : ProcPrepare(w)
    \/ \E w \in 1..Len(workers) : ProcLock(w)
    \/ \E w \in 1..Len(workers) : ProcFinish(w)
    \/ \E path \in ExternalFonts, version \in Versions, tick \in Ticks :
          ModifyFont(path, version, tick)
    \/ \E state \in {"absent", "corrupt"} : DamageCache(state)

SpecIndex == Init /\ [][NextIndex]_vars

\* The process operations on a subtitle and the folder d in either mode,
\* while other programs rewrite the font files and cache.json.
ResolveInputs == {<<p_sub, p_dir>>}
\* the times other programs set: the first second and the next
ResolveTicks == {0, TicksPerSec}

NextResolve ==
    \/ \E paths \in ResolveInputs : enqueue_paths(paths)
    \/ handle_process_pending
    \/ poll_worker
    \/ \E m \in {"NoResidue", "Normal"} : set_mode(m)
    \/ \E w \in 1..Len(workers) : ProcPrepare(w)
    \/ \E w \in 1..Len(workers) : ProcLock(w)
    \/ \E w \in 1..Len(workers) : ProcName(w)
    \/ \E w \in 1..Len(workers) : ProcFinish(w)
    \/ \E path \in ExternalFonts, version \in Versions, tick \in ResolveTicks :
          ModifyFont(path, version, tick)
    \/ DamageCache("absent")

InitResolve ==
    /\ InitRest
    /\ loaded = {}
    /\ poisoned = FALSE
    /\ os_refs = ExternalRefs(0)
    /\ input = <<>>
    /\ output = <<>>

SpecResolve == InitResolve /\ [][NextResolve]_vars

\* The force-clean operations on the folder d, while other programs
\* deactivate fonts and the window may be closed. The system runs a spawned
\* thread until it returns.
CleanThread ==
    \/ \E w \in 1..Len(workers) : CleanWalk(w)
    \/ \E w \in 1..Len(workers) : CleanRemove(w)
    \/ \E w \in 1..Len(workers) : CleanFinish(w)

NextClean ==
    \/ \E folder \in Dirs : handle_clean(folder)
    \/ poll_worker
    \/ CleanThread
    \/ ExitLock
    \/ ExitEnd
    \/ \E path \in ExternalFonts : ExternalDeactivate(path)

SpecClean == Init /\ [][NextClean]_vars /\ WF_vars(CleanThread)

\* ------------------------ the parsers and the reader called on their own

\* the program before its first request, nothing activated by others
ProgramIdle ==
    /\ InitRest
    /\ loaded = {}
    /\ poisoned = FALSE
    /\ os_refs = ExternalRefs(0)

\* the strings of at most n bytes from the set bytes
Strings(bytes, n) == UNION {[1..k -> bytes] : k \in 0..n}

\* raw names: NUL, ' ', '@', 'A', 'b'
NameBytes == {0, 32, 64, 65, 98}

\* normalize_font_name called on input, then on the name it returned
NormalizeCall ==
    /\ Len(output) < MaxCalls
    /\ IF output = <<>> THEN TRUE ELSE output[Len(output)].some
    /\ output' = Append(output,
                        normalize_font_name(IF output = <<>> THEN input
                                            ELSE output[Len(output)].val))
    /\ UNCHANGED <<input, progVars>>

InitNormalize ==
    /\ ProgramIdle
    /\ input \in Strings(NameBytes, MaxName)
    /\ output = <<>>

SpecNormalize == InitNormalize /\ [][NormalizeCall]_vars

\* the lines the subtitle texts are made of
SubLine ==
    \* [Events]
    [ events |-> <<91, 69, 118, 101, 110, 116, 115, 93>>,
    \* [V4+ Styles]
      styles |-> <<91, 86, 52, 43, 32, 83, 116, 121, 108, 101, 115, 93>>,
    \* Format: Layer, Start, End, Style, Name, MarginL, MarginR, MarginV, Effect, Text
      format10 |-> <<70, 111, 114, 109, 97, 116, 58, 32, 76, 97, 121, 101,
                        114, 44, 32, 83, 116, 97, 114, 116, 44, 32, 69, 110,
                        100, 44, 32, 83, 116, 121, 108, 101, 44, 32, 78, 97,
                        109, 101, 44, 32, 77, 97, 114, 103, 105, 110, 76, 44,
                        32, 77, 97, 114, 103, 105, 110, 82, 44, 32, 77, 97,
                        114, 103, 105, 110, 86, 44, 32, 69, 102, 102, 101, 99,
                        116, 44, 32, 84, 101, 120, 116>>,
    \* Dialogue: 0,0:00:00.00,0:00:05.00,Default,,0,0,0,,{\fn(Comic Sans MS)}Hello
      dialogue10 |-> <<68, 105, 97, 108, 111, 103, 117, 101, 58, 32, 48,
                          44, 48, 58, 48, 48, 58, 48, 48, 46, 48, 48, 44, 48,
                          58, 48, 48, 58, 48, 53, 46, 48, 48, 44, 68, 101,
                          102, 97, 117, 108, 116, 44, 44, 48, 44, 48, 44, 48,
                          44, 44, 123, 92, 102, 110, 40, 67, 111, 109, 105,
                          99, 32, 83, 97, 110, 115, 32, 77, 83, 41, 125, 72,
                          101, 108, 108, 111>>,
    \* format: Layer, TEXT
      format2 |-> <<102, 111, 114, 109, 97, 116, 58, 32, 76, 97, 121, 101,
                       114, 44, 32, 84, 69, 88, 84>>,
    \* dialogue: 0,{\fnA}x,y{\fn(B,c)}
      dialogue2 |-> <<100, 105, 97, 108, 111, 103, 117, 101, 58, 32, 48,
                         44, 123, 92, 102, 110, 65, 125, 120, 44, 121, 123,
                         92, 102, 110, 40, 66, 44, 99, 41, 125>>,
    \* Comment:
      comment |-> <<67, 111, 109, 109, 101, 110, 116, 58>>,
    \* Format: Name, Fontname, Fontsize
      sformat |-> <<70, 111, 114, 109, 97, 116, 58, 32, 78, 97, 109, 101,
                       44, 32, 70, 111, 110, 116, 110, 97, 109, 101, 44, 32,
                       70, 111, 110, 116, 115, 105, 122, 101>>,
    \* Style: Default,Verdana,20
      style |-> <<83, 116, 121, 108, 101, 58, 32, 68, 101, 102, 97, 117,
                     108, 116, 44, 86, 101, 114, 100, 97, 110, 97, 44, 50, 48>>,
    \* FORMAT: fontname, name
      sformat2 |-> <<70, 79, 82, 77, 65, 84, 58, 32, 102, 111, 110, 116,
                        110, 97, 109, 101, 44, 32, 110, 97, 109, 101>>,
    \* STYLE:  @Arial ,Default
      style2 |-> <<83, 84, 89, 76, 69, 58, 32, 32, 64, 65, 114, 105, 97,
                      108, 32, 44, 68, 101, 102, 97, 117, 108, 116>>]

\* the text of the lines named, each ended by '\n'
RECURSIVE sub_text(_)
sub_text(names) ==
    IF names = <<>> THEN <<>>
    ELSE (SubLine[Head(names)] \o <<10>>) \o sub_text(Tail(names))

\* parse_ass_fonts called on the text of the lines in input
ParseCall ==
    /\ output = <<>>
    /\ output' = <<parse_ass_fonts(sub_text(input))>>
    /\ UNCHANGED <<input, progVars>>

InitSubtitle ==
    /\ ProgramIdle
    /\ input \in Strings(DOMAIN SubLine, MaxLines)
    /\ output = <<>>

SpecSubtitle == InitSubtitle /\ [][ParseCall]_vars

\* the pieces the payloads are made of: "\fn" ( ) A , } and a space
FnPiece ==
    [fn |-> kw_fn, open |-> <<40>>, close |-> <<41>>, a |-> <<65>>,
     comma |-> <<44>>, brace |-> <<125>>, space |-> <<32>>]

RECURSIVE fn_text(_)
fn_text(names) ==
    IF names = <<>> THEN <<>> ELSE FnPiece[Head(names)] \o fn_text(Tail(names))

\* parse_fn_tags called on the payload of the pieces in input
FnCall ==
    /\ output = <<>>
    /\ output' = <<parse_fn_tags(fn_text(input))>>
    /\ UNCHANGED <<input, progVars>>

InitFnTags ==
    /\ ProgramIdle
    /\ input \in Strings(DOMAIN FnPiece, MaxPieces)
    /\ output = <<>>

SpecFnTags == InitFnTags /\ [][FnCall]_vars

\* a collection: the header "ttcf", version, numFonts = 2, the offsets 20
\* and 70, then the two versions of d/a.ttf
ttc_data ==
    <<116, 116, 99, 102, 0, 1, 0, 0, 0, 0, 0, 2, 0, 0, 0, 20, 0, 0, 0, 70>>
      \o FontData(p_font_a, 1) \o FontData(p_font_a, 2)

\* data with the bytes at the offsets of pokes overwritten, in order
RECURSIVE poked(_, _)
poked(data, pokes) ==
    IF pokes = <<>> THEN data
    ELSE poked([data EXCEPT ![pokes[1][1] + 1] = pokes[1][2]], Tail(pokes))

\* damaged font files: version 1 of d/b.OTF and the collection, cut short at
\* any length, or with at most MaxPokes bytes set to 0 or 63 (an offset
\* with such a byte in front lies far outside the buffer)
FontInputs ==
    UNION {{Sub(data, 0, n) : n \in 0..Len(data)}
             \cup {poked(data, pokes) :
                     pokes \in Strings((0..(Len(data) - 1)) \X {0, 63}, MaxPokes)} :
           data \in {FontData(p_font_b, 1), ttc_data}}

\* parse_font_names_from_bytes called on the bytes in input
ReadCall ==
    /\ output = <<>>
    /\ output' = <<parse_font_names_from_bytes(input)>>
    /\ UNCHANGED <<input, progVars>>

InitFontReader ==
    /\ ProgramIdle
    /\ input \in FontInputs
    /\ output = <<>>

SpecFontReader == InitFontReader /\ [][ReadCall]_vars

\* ---------------------------------------------------------- properties

\* the per-name outcomes of the process worker that name a candidate
IsOutcome(e) == e.ev \in {"loaded", "duplicate", "failed"}
SamePath(i, j) ==
    /\ i < j
    /\ IsOutcome(trace[i]) /\ IsOutcome(trace[j])
    /\ trace[i].path = trace[j].path
    /\ \A k \in i..j : trace[k].ev # "unload end"

\* C1 (as stated): of the outcomes for one path with no unload between them,
\* exactly one is "loaded" and every later one is "duplicate".
C1_ExactlyOneLoaded ==
    \A i, j \in 1..Len(trace) :
        SamePath(i, j) =>
            /\ trace[j].ev = "duplicate"
            /\ \E k \in 1..i : (k = i \/ SamePath(k, i)) /\ trace[k].ev = "loaded"

\* C1 (amended): of the outcomes for one path with no unload between them, at
\* most one is "loaded", that one follows a successful activation of the
\* path, and every outcome after a "loaded" or "duplicate" one is
\* "duplicate" (an outcome before the "loaded" one is "failed"); and the
\* registry holds only paths a worker activated successfully.
C1_AtMostOnce ==
    /\ \A i, j \in 1..Len(trace) :
          (SamePath(i, j) /\ trace[i].ev # "failed") => trace[j].ev = "duplicate"
    /\ \A i \in 1..Len(trace) :
          trace[i].ev = "loaded" =>
              /\ i > 1
              /\ trace[i - 1] = Ev("activate", trace[i].by, trace[i].path, TRUE,
                                   trace[i].arg)
    /\ \A path \in loaded :
          \E i \in 1..Len(trace) :
              trace[i].ev = "activate" /\ trace[i].path = path /\ trace[i].ok

\* a path first "failed", then "loaded" and, in a later operation, "duplicate"
C1_Witness ==
    \E i, j, k \in 1..Len(trace) :
        /\ SamePath(i, j) /\ SamePath(j, k)
        /\ trace[i].ev = "failed" /\ trace[j].ev = "loaded"
        /\ trace[k].ev = "duplicate" /\ trace[k].by # trace[j].by
        /\ trace[j].path \in loaded

\* the unload operations that returned Ok: i and j are the places in trace of
\* the begin and the end of one
UnloadRun(i, j) ==
    /\ i < j
    /\ trace[i].ev = "unload begin" /\ trace[j].ev = "unload end"
    /\ trace[i].by = trace[j].by
\* the deactivations of path the operation attempted
UnloadAttempts(i, j, path) ==
    {k \in i..j : /\ trace[k].ev = "deactivate" /\ trace[k].by = trace[i].by
                  /\ trace[k].path = path}

\* C2 (as stated): after an unload that returns Ok the registry is empty,
\* and each path registered at its start got exactly one deactivation attempt.
C2_RegistryEmptied ==
    \A i, j \in 1..Len(trace) :
        UnloadRun(i, j) =>
            /\ trace[j].arg = {}
            /\ \A path \in trace[i].arg :
                  Cardinality(UnloadAttempts(i, j, path)) = 1

\* C2 (amended): after an unload that returns Ok the registry holds exactly
\* the paths whose deactivation failed (none when all succeeded), and each
\* path registered at its start, and no other, got exactly one attempt.
C2_FailedStay ==
    \A i, j \in 1..Len(trace) :
        UnloadRun(i, j) =>
            /\ \A path \in trace[i].arg :
                  Cardinality(UnloadAttempts(i, j, path)) = 1
            /\ \A path \in FontFiles \ trace[i].arg :
                  UnloadAttempts(i, j, path) = {}
            /\ trace[j].arg =
                  {path \in trace[i].arg :
                      \E k \in UnloadAttempts(i, j, path) : ~trace[k].ok}
            /\ (\A k \in i..j : trace[k].ev = "deactivate" => trace[k].ok)
                  => trace[j].arg = {}

\* an unload of two registered paths, one deactivated and one not
C2_Witness ==
    \E i, j \in 1..Len(trace) :
        /\ UnloadRun(i, j)
        /\ Cardinality(trace[i].arg) = 2
        /\ Cardinality(trace[j].arg) = 1
        /\ loaded = trace[j].arg

\* the threads that have not returned
Outstanding == {w \in 1..Len(workers) : workers[w].pc \notin {"done", "panicked"}}
\* a process-pending, unload or force-clean request
Request ==
    handle_process_pending \/ handle_unload \/ \E folder \in Dirs : handle_clean(folder)

\* C3: at most one background operation is outstanding at a time, and a
\* request made while busy starts no worker, makes no channel and changes
\* nothing but the log, which gets one notice.
C3_SingleOutstanding ==
    /\ [](Cardinality(Outstanding) <= 1)
    /\ [][(busy /\ Request) =>
            /\ workers' = workers
            /\ chans' = chans
            /\ logs' = Append(logs, <<"busy">>)
            /\ UNCHANGED <<mode, busy, worker_rx, last_summary, pending_paths>>
            /\ UNCHANGED <<exitVars, regVars, envVars, trace>>]_vars

\* the second operation is outstanding and a request has just been rejected
C3_Witness ==
    /\ busy
    /\ Outstanding = {2}
    /\ logs # <<>> /\ logs[Len(logs)] = <<"busy">>

\* C4: every started operation hands back one message that a later
\* poll_worker consumes, clearing busy: with the threads scheduled fairly and
\* poll_worker called again and again (the window stays open), busy = TRUE
\* leads to busy = FALSE.
C4_BusyLeadsToIdle == (busy /\ app = "running") ~> (~busy \/ app # "running")

\* the thread w is between state.lock() and its return
InRegistry(w) == workers[w].kind \in {"process", "unload"} /\ workers[w].pc = "loop"

\* C5: a worker is in its check / activate / insert or iterate / deactivate
\* / remove sequence only while it holds the registry mutex, on_exit sweeps
\* only while it holds it, the registry changes only in a step of the thread
\* that holds it, and it does not change during the sweep.
C5_MutualExclusion ==
    /\ [](\A w \in 1..Len(workers) : InRegistry(w) => lock_owner = w)
    /\ [](app = "sweep" => lock_owner = -1 /\ exit_todo \subseteq loaded)
    /\ [][loaded' # loaded =>
            /\ lock_owner \in 1..Len(workers)
            /\ InRegistry(lock_owner)
            /\ workers'[lock_owner] # workers[lock_owner]]_vars
    /\ [][app = "sweep" => loaded' = loaded]_vars

\* on_exit is sweeping a registered path while a process worker that has
\* built its index waits for the mutex
C5_Witness ==
    /\ app = "sweep"
    /\ exit_todo # {}
    /\ \E w \in 1..Len(workers) :
          workers[w].kind = "process" /\ workers[w].pc = "lock"

\* state.lock() of the thread w returned Err
LockFailed(w) == \E i \in 1..Len(trace) : trace[i].ev = "lock failed" /\ trace[i].by = w
\* the system calls of the thread w
SystemCalls(w) ==
    {i \in 1..Len(trace) : /\ trace[i].by = w
                            /\ trace[i].ev \in {"activate", "deactivate", "broadcast"}}
ErrorResult(w) ==
    Msg(IF workers[w].kind = "process" THEN "Process" ELSE "Unload", FALSE, LockError)

\* C6: a process or unload operation that meets a poisoned registry mutex
\* returns one error result and no success result, calls neither
\* ActivateFont nor DeactivateFont nor the broadcast, and leaves the
\* registry as it was; poll_worker logs one error line for it and clears busy.
C6_LockFailure ==
    /\ [](\A w \in 1..Len(workers) :
            (poisoned /\ workers[w].kind \in {"process", "unload"}) =>
                /\ ~InRegistry(w)
                /\ SystemCalls(w) = {}
                /\ workers[w].pc = "done" => LockFailed(w)
                /\ chans[workers[w].chan].msgs \in {<<>>, <<ErrorResult(w)>>}
                /\ workers[w].pc # "done" => chans[workers[w].chan].msgs = <<>>)
    /\ [][poisoned => loaded' = loaded]_vars
    /\ [][\A w \in 1..Len(workers) :
            (LockFailed(w)' /\ ~LockFailed(w)) =>
                /\ chans'[workers[w].chan].msgs = <<ErrorResult(w)>>
                /\ os_refs' = os_refs]_vars
    /\ [][(/\ app' = "running"
            /\ worker_rx # 0 /\ worker_rx' = 0
            /\ chans[worker_rx].msgs # <<>>
            /\ ~chans[worker_rx].msgs[1].ok) =>
            /\ logs' = Append(logs, <<"error", LockError>>)
            /\ ~busy'
            /\ last_summary' = last_summary]_vars

\* a process operation met the poisoned mutex of a registry that holds a
\* path, and poll_worker has taken its result
C6_Witness ==
    /\ poisoned
    /\ loaded # {}
    /\ ~busy
    /\ \E w \in 1..Len(workers) :
          /\ workers[w].kind = "process" /\ LockFailed(w)
          /\ workers[w].chan = Len(chans) /\ ~chans[Len(chans)].rx
    /\ logs # <<>> /\ logs[Len(logs)] = <<"error", LockError>>

\* the names the subtitle files require
RequiredNames == UNION {SubFonts[path].fonts : path \in DOMAIN SubFonts}
\* the index has no file for the lower-cased name
NoCandidate(index, font) ==
    \A key \in DOMAIN index : key = to_lowercase(font) => index[key] = <<>>
\* the thread w, in its loop, takes font in the step
Takes(w, font) ==
    /\ workers[w].kind = "process" /\ workers[w].pc = "loop"
    /\ font \in workers[w].l.required
    /\ workers'[w].pc = "loop"
    /\ workers'[w].l.required = workers[w].l.required \ {font}
EventsOf(w, ev) == {i \in 1..Len(trace) : trace[i].by = w /\ trace[i].ev = ev}

\* C7: a required name whose lower-cased key has no candidate is counted
\* and logged as missing, no ActivateFont call is made for it, the registry
\* and the other counters stay as they are, and the operation ends with a
\* success result that counts the missing names.
C7_Missing ==
    /\ [][\A w \in 1..Len(workers) : \A font \in RequiredNames :
            (Takes(w, font) /\ NoCandidate(workers[w].l.index, font)) =>
                /\ workers'[w].l.missing = workers[w].l.missing + 1
                /\ workers'[w].l.logs = Append(workers[w].l.logs, <<"missing", font>>)
                /\ workers'[w].l.loaded = workers[w].l.loaded
                /\ workers'[w].l.failed = workers[w].l.failed
                /\ workers'[w].l.duplicates = workers[w].l.duplicates
                /\ Len(trace') = Len(trace) + 1
                /\ trace'[Len(trace')].ev = "missing"
                /\ trace'[Len(trace')].arg = font
                /\ loaded' = loaded
                /\ os_refs' = os_refs]_vars
    /\ [](\A w \in 1..Len(workers) :
            (workers[w].kind = "process" /\ EventsOf(w, "process end") # {}) =>
                \/ chans[workers[w].chan].msgs = <<>>
                \/ /\ chans[workers[w].chan].msgs[1].ok
                   /\ chans[workers[w].chan].msgs[1].res.missing
                        = Cardinality(EventsOf(w, "missing")))

\* the second process operation found no file for its two names, left the
\* registered path of the first in place and returned a success result
C7_Witness ==
    /\ loaded # {}
    /\ Cardinality(EventsOf(2, "missing")) = 2
    /\ Len(workers) = 2 /\ chans[workers[2].chan].msgs # <<>>
    /\ chans[workers[2].chan].msgs[1].ok
    /\ chans[workers[2].chan].msgs[1].res.missing = 2

\* the cache-enabled index builds: the threads that have built their index
CachedBuilds ==
    {w \in 1..Len(workers) : /\ workers[w].kind = "process"
                              /\ workers[w].pc \in {"lock", "loop"}
                              /\ workers[w].l.use_cache}
\* what build_font_index with use_cache = false makes of the same files
Uncached(l) == build_font_index(l.font_files, FALSE, <<>>, l.fs)
\* the entries of an index that hold file: how often each key lists it
FileKeys(index, file) ==
    [key \in {k \in DOMAIN index : \E i \in DOMAIN index[k] : index[k][i] = file} |->
        Cardinality({i \in DOMAIN index[key] : index[key][i] = file})]
SameAsUncached(l, file) ==
    /\ l.used[file] = Uncached(l).used[file]
    /\ FileKeys(l.index, file) = FileKeys(Uncached(l).index, file)
\* the cache the build loaded has an entry for file with the file's time
SameTime(l, file) ==
    /\ file \in DOMAIN l.cache_before
    /\ l.fs[file].mtime.some
    /\ l.fs[file].mtime.val = l.cache_before[file].modified
OtherTime(l, file) ==
    /\ file \in DOMAIN l.cache_before
    /\ ~l.fs[file].mtime.some \/ l.fs[file].mtime.val # l.cache_before[file].modified

C9_Invalidation ==
    \A w \in CachedBuilds : \A file \in Range(workers[w].l.font_files) :
        OtherTime(workers[w].l, file) =>
            /\ workers[w].l.used[file] = workers[w].l.fs[file].names
            /\ SameAsUncached(workers[w].l, file)
            /\ workers[w].l.cache_after[file].names = workers[w].l.fs[file].names
            /\ workers[w].l.cache_after[file].modified =
                  (IF workers[w].l.fs[file].mtime.some
                   THEN workers[w].l.fs[file].mtime.val ELSE 0)

\* the second build met a file with another time and other names than the
\* entry the first build wrote, next to a file with the time of its entry
C9_Witness ==
    /\ 2 \in CachedBuilds
    /\ \E file, other \in Range(workers[2].l.font_files) :
          /\ OtherTime(workers[2].l, file)
          /\ workers[2].l.fs[file].mtime.some
          /\ workers[2].l.cache_before[file].names # workers[2].l.fs[file].names
          /\ workers[2].l.cache_before[file].names # {}
          /\ SameTime(workers[2].l, other)

\* two names that differ at most in the case of their letters
IsLetter(b) == b \in (65..90) \cup (97..122)
CaseEq(s, t) ==
    /\ Len(s) = Len(t)
    /\ \A i \in 1..Len(s) :
          \/ s[i] = t[i]
          \/ IsLetter(s[i]) /\ IsLetter(t[i]) /\ (s[i] - t[i]) \in {32, -32}
\* the process threads that have built their index
Builds ==
    {w \in 1..Len(workers) : /\ workers[w].kind = "process"
                              /\ workers[w].pc \in {"lock", "loop"}}
\* the files of the build whose names include one that is font up to case
Declaring(l, font) ==
    {file \in Range(l.font_files) : \E name \in l.used[file] : CaseEq(font, name)}

\* C10: a required name and a declared name that differ only in letter case
\* have the same index key, the declaring file is a candidate of the
\* required name, and the name is not counted missing but matched to a file
\* that declares it up to case.
C10_CaseInsensitive ==
    /\ [](\A w \in Builds : \A font \in RequiredNames :
            \A file \in Range(workers[w].l.font_files) :
              \A name \in workers[w].l.used[file] :
                CaseEq(font, name) =>
                    /\ lookup_key(font) = index_key(name)
                    /\ lookup_key(font) \in DOMAIN workers[w].l.index
                    /\ file \in Range(workers[w].l.index[lookup_key(font)]))
    /\ [][\A w \in 1..Len(workers) : \A font \in RequiredNames :
            (Takes(w, font) /\ Declaring(workers[w].l, font) # {}) =>
                /\ workers'[w].l.missing = workers[w].l.missing
                /\ trace'[Len(trace')].ev \in {"loaded", "duplicate", "failed"}
                /\ trace'[Len(trace')].arg = font
                /\ trace'[Len(trace')].path \in Declaring(workers[w].l, font)]_vars

\* the name "Ab" was loaded from d/a.ttf, which declares "AB"
C10_Witness ==
    \E i \in 1..Len(trace) :
        /\ trace[i].ev = "loaded"
        /\ trace[i].path = p_font_a
        /\ trace[i].arg \notin FontNames[p_font_a][fver[p_font_a]]
        /\ \E name \in FontNames[p_font_a][fver[p_font_a]] : CaseEq(trace[i].arg, name)

\* C11: normalize_font_name applied to a name it returned returns that name
\* again.
C11_Idempotent ==
    \A i \in 2..Len(output) : output[i - 1].some => output[i] = output[i - 1]

\* the names parse_ass_fonts returned for the lines named
Parsed(names) == input = names /\ output # <<>>
\* "Comic Sans MS", "A", "B,c", "Verdana", "Arial"
n_comic == <<67, 111, 109, 105, 99, 32, 83, 97, 110, 115, 32, 77, 83>>
n_a == <<65>>
n_bc == <<66, 44, 99>>
n_verdana == <<86, 101, 114, 100, 97, 110, 97>>
n_arial == <<65, 114, 105, 97, 108>>

\* C12: under a Format line with Text as the last of N columns, the payload
\* of a Dialogue line is what follows the comma before the Text column,
\* its own commas kept, and every \fn tag in it is extracted: the ten-column
\* example of the spec yields {"Comic Sans MS"}, and a two-column line whose
\* payload holds commas yields the names of both its tags.
C12_Payload ==
    /\ Parsed(<<"events", "format10", "dialogue10">>) =>
          output[1] = [panic |-> FALSE, fonts |-> {n_comic}]
    /\ Parsed(<<"events", "format2", "dialogue2">>) =>
          output[1] = [panic |-> FALSE, fonts |-> {n_a, n_bc}]

\* the Format lines of the texts and the column each gives the label
\* "fontname" (1, the default column, when it has no such label), and the
\* normalized fields of the Style lines
FontnameColumn == [sformat |-> 1, sformat2 |-> 0, format10 |-> 1, format2 |-> 1]
StyleFields == [style |-> <<<<68, 101, 102, 97, 117, 108, 116>>, n_verdana, <<50, 48>>>>,
                style2 |-> <<n_arial, <<68, 101, 102, 97, 117, 108, 116>>>>]
\* the font column in force at line i: that of the last Format line before it
StyleColumn(i) ==
    LET formats == {j \in 1..(i - 1) : input[j] \in DOMAIN FontnameColumn}
    IN IF formats = {} THEN 1
       ELSE FontnameColumn[input[CHOOSE j \in formats : \A k \in formats : k <= j]]

\* C13: in a Styles section each Style line contributes the normalized field
\* at the column the last Format line labels "fontname" (keywords and labels
\* in any case, the name as written), or at the default column when no
\* Format line came before; "Format: Name, Fontname, .." and
\* "Style: Default,Verdana,.." yield {"Verdana"}.
C13_StyleFont ==
    (/\ output # <<>> /\ input # <<>>
     /\ input[1] = "styles" /\ "events" \notin Range(input)) =>
        output[1] = [panic |-> FALSE,
                     fonts |-> {StyleFields[input[i]][StyleColumn(i) + 1] :
                                  i \in {j \in 1..Len(input) :
                                           input[j] \in DOMAIN StyleFields}}]

\* the example of the spec has been parsed
C13_Witness ==
    Parsed(<<"styles", "sformat", "style">>) /\ output[1].fonts = {n_verdana}

\* C14: parse_ass_fonts returns for every text; a malformed line (here the
\* bare "Comment:") contributes no name and takes none from the other
\* lines: the result is that of the text without it.
C14_Tolerant ==
    output # <<>> =>
        /\ ~output[1].panic
        /\ output[1] = parse_ass_fonts(
                          sub_text(SelectSeq(input, LAMBDA name : name # "comment")))

\* the reader has returned for data
Read(data) == input = data /\ output # <<>>
\* the bytes "name" occur nowhere in input
NoNameTag == \A at \in 0..(Len(input) - 4) : Sub(input, at, at + 4) # tag_name
\* "ab", "AB", "C"
n_ab == <<97, 98>>
n_AB == <<65, 66>>
n_C == <<67>>

\* C15: for every buffer the reader returns a name set and never faults; a
\* buffer with no "name" table record yields the empty set; a string offset
\* outside the buffer drops only its record, and a font offset outside the
\* buffer only its sub-font of the collection.
C15_ReaderTolerant ==
    /\ output # <<>> => ~output[1].panic
    /\ (output # <<>> /\ NoNameTag) => output[1].names = {}
    /\ Read(FontData(p_font_b, 1)) => output[1].names = {n_ab, n_C}
    /\ Read(poked(FontData(p_font_b, 1), <<<<56, 63>>>>)) => output[1].names = {n_ab}
    /\ Read(ttc_data) => output[1].names = {n_AB, n_C}
    /\ Read(poked(ttc_data, <<<<16, 63>>>>)) => output[1].names = {n_AB}

\* the reader has passed over the second name record of d/b.OTF, whose
\* string offset is outside the buffer, and returned the name of the first
C15_Witness ==
    /\ Read(poked(FontData(p_font_b, 1), <<<<56, 63>>>>))
    /\ output[1] = Names({n_ab})

\* the thread w is a force-clean worker and takes the step
CleanStep(w) == workers[w].kind = "clean" /\ workers'[w] # workers[w]
\* its DeactivateFont calls so far, and those that succeeded
CleanCalls(w, path) ==
    {i \in EventsOf(w, "deactivate") : trace[i].path = path}
CleanRemoved(w) == {i \in EventsOf(w, "deactivate") : trace[i].ok}

\* C16: force-clean calls DeactivateFont on each font-candidate file of the
\* directory until a call fails, each successful call taking one activation
\* of the file and the failing call finding none left, so that its calls on
\* a file are successes ended by one failure; the count it reports is the
\* number of its successful calls; and no step of it changes the registry
\* or takes its mutex.
C16_CleanCount ==
    /\ [][\A w \in 1..Len(workers) :
            (CleanStep(w) /\ trace' # trace /\ workers'[w].pc = "loop") =>
                LET path == Head(workers[w].l.files)
                    call == trace'[Len(trace')]
                IN /\ is_font_file(path)
                   /\ call = Ev("deactivate", w, path, os_refs[path] > 0, <<>>)
                   /\ IF call.ok
                      THEN /\ os_refs' = [os_refs EXCEPT ![path] = @ - 1]
                           /\ workers'[w].l.count = workers[w].l.count + 1
                           /\ workers'[w].l.files = workers[w].l.files
                      ELSE /\ os_refs' = os_refs
                           /\ workers'[w].l.count = workers[w].l.count
                           /\ workers'[w].l.files = Tail(workers[w].l.files)]_vars
    /\ [][\A w \in 1..Len(workers) :
            (CleanStep(w) /\ workers'[w].pc = "done") =>
                /\ \A path \in FontFiles :
                      \E last \in CleanCalls(w, path) :
                          \A i \in CleanCalls(w, path) : trace[i].ok <=> i # last
                /\ chans[workers[w].chan].rx =>
                      chans'[workers[w].chan].msgs =
                          <<Msg("Clean", TRUE,
                                [count |-> Cardinality(CleanRemoved(w))])>>]_vars
    /\ [][\A w \in 1..Len(workers) :
            CleanStep(w) => UNCHANGED <<loaded, lock_owner, poisoned>>]_vars

\* the first operation was a force-clean of d; the program has activated
\* nothing, d/b.OTF was activated twice by others, and the count is 2
C16_Witness ==
    /\ Len(workers) = 1 /\ workers[1].kind = "clean" /\ workers[1].pc = "done"
    /\ Cardinality(CleanCalls(1, p_font_b)) = 3
    /\ chans[1].msgs = <<Msg("Clean", TRUE, [count |-> 2])>>

\* the thread w returns from the loop of unload_fonts_worker in the step
UnloadReturns(w) ==
    /\ workers[w].kind = "unload"
    /\ workers[w].pc = "loop" /\ workers'[w].pc = "done"
\* the registered paths a DeactivateFont call of w succeeded on
Deactivated(w) ==
    {path \in loaded : \E i \in EventsOf(w, "deactivate") :
                          trace[i].path = path /\ trace[i].ok}

\* C17: an unload takes out of the registry exactly the paths whose
\* DeactivateFont call succeeded and leaves the others in; the count it
\* reports is the number of paths taken out; it broadcasts once when that
\* count is positive and not at all when it is zero.
C17_UnloadExact ==
    /\ [][\A w \in 1..Len(workers) :
            UnloadReturns(w) =>
                /\ loaded' = loaded \ Deactivated(w)
                /\ chans[workers[w].chan].rx =>
                      chans'[workers[w].chan].msgs =
                          <<Msg("Unload", TRUE,
                                [count |-> Cardinality(Deactivated(w))])>>
                /\ Cardinality({i \in 1..Len(trace') :
                                  trace'[i] = Ev("broadcast", w, <<>>, TRUE, <<>>)})
                     = IF Deactivated(w) = {} THEN 0 ELSE 1]_vars
    /\ [](\A i, j \in 1..Len(trace) :
            UnloadRun(i, j) =>
                trace[j].arg =
                    trace[i].arg \ {trace[k].path :
                                      k \in {n \in i..j : /\ trace[n].ev = "deactivate"
                                                          /\ trace[n].by = trace[i].by
                                                          /\ trace[n].ok}})

\* an unload of two registered paths has reported the count 1 after one
\* broadcast, and the path it could not deactivate is still registered
C17_Witness ==
    \E w \in 1..Len(workers) :
        /\ workers[w].kind = "unload" /\ workers[w].pc = "done"
        /\ chans[workers[w].chan].msgs = <<Msg("Unload", TRUE, [count |-> 1])>>
        /\ Cardinality(EventsOf(w, "deactivate")) = 2
        /\ Cardinality(EventsOf(w, "broadcast")) = 1
        /\ Cardinality(loaded) = 1

\* the thread w handles the required name font in the step (one iteration of
\* the loop of process_drop_worker), and the first candidate of that name
Required(w) ==
    IF workers[w].kind = "process" /\ workers[w].pc = "loop"
    THEN workers[w].l.required ELSE {}
NameStep(w, font) ==
    /\ font \in Required(w)
    /\ workers'[w].pc = "loop"
    /\ font \notin workers'[w].l.required
Candidate(w, font) == first_candidate(workers[w].l.index, lookup_key(font))
\* what the step appends to trace
Appended == SubSeq(trace', Len(trace) + 1, Len(trace'))
\* a thread of a process operation moves in the step
ProcessStep == \E w \in 1..Len(workers) :
                  workers[w].kind = "process" /\ workers'[w] # workers[w]

\* C18: a required name whose first candidate is registered is classified
\* "duplicate" without an ActivateFont call and with the registry unchanged;
\* a name whose ActivateFont call fails is classified "failed" with the
\* registry unchanged; and a process operation changes the registry only by
\* inserting the path of an ActivateFont call that just succeeded.
C18_ProcessFrame ==
    /\ [][\A w \in 1..Len(workers) : \A font \in Required(w) :
            (/\ NameStep(w, font)
             /\ Candidate(w, font).some
             /\ Candidate(w, font).val \in loaded) =>
                /\ Appended = <<Ev("duplicate", w, Candidate(w, font).val, TRUE, font)>>
                /\ workers'[w].l.duplicates = workers[w].l.duplicates + 1
                /\ loaded' = loaded
                /\ os_refs' = os_refs]_vars
    /\ [][\A w \in 1..Len(workers) : \A font \in Required(w) :
            (/\ NameStep(w, font)
             /\ Appended # <<>>
             /\ Appended[1].ev = "activate" /\ ~Appended[1].ok) =>
                /\ Appended = <<Ev("activate", w, Candidate(w, font).val, FALSE, font),
                                Ev("failed", w, Candidate(w, font).val, TRUE, font)>>
                /\ workers'[w].l.failed = workers[w].l.failed + 1
                /\ loaded' = loaded
                /\ os_refs' = os_refs]_vars
    /\ [][(ProcessStep /\ loaded' # loaded) =>
            \E w \in 1..Len(workers) : \E font \in Required(w) :
                /\ NameStep(w, font)
                /\ Candidate(w, font).some
                /\ Candidate(w, font).val \notin loaded
                /\ loaded' = loaded \cup {Candidate(w, font).val}
                /\ Appended = <<Ev("activate", w, Candidate(w, font).val, TRUE, font),
                                Ev("loaded", w, Candidate(w, font).val, TRUE, font)>>]_vars

\* a name has been classified "failed" after a failed ActivateFont call, and
\* a name of a later operation "duplicate" on a path that an earlier operation
\* inserted after a successful call and that is registered
C18_Witness ==
    \E i, j, k \in 1..Len(trace) :
        /\ trace[j].ev = "failed" /\ j > 1
        /\ trace[j - 1].ev = "activate" /\ ~trace[j - 1].ok
        /\ trace[i].ev = "duplicate" /\ trace[i].path \in loaded
        /\ k > 1 /\ k < i
        /\ trace[k].ev = "loaded" /\ trace[k].path = trace[i].path
        /\ trace[k - 1].ev = "activate" /\ trace[k - 1].ok
        /\ trace[k].by # trace[i].by

\* the per-name outcomes of the thread w
Outcomes(w) == EventsOf(w, "loaded") \cup EventsOf(w, "duplicate")
               \cup EventsOf(w, "failed") \cup EventsOf(w, "missing")
\* the thread w leaves the loop of process_drop_worker and returns in the step
ProcessReturns(w) ==
    /\ workers[w].kind = "process"
    /\ workers[w].pc = "loop" /\ workers'[w].pc = "done"

\* C19: a process operation broadcasts once, after the last required name,
\* exactly when it classified a name "loaded"; an operation with only
\* missing, failed or duplicate outcomes does not broadcast.
C19_BroadcastAfter ==
    /\ [][\A w \in 1..Len(workers) :
            ProcessReturns(w) =>
                /\ workers[w].l.required = {}
                /\ EventsOf(w, "broadcast") = {}
                /\ Appended =
                     (IF EventsOf(w, "loaded") # {}
                      THEN <<Ev("broadcast", w, <<>>, TRUE, <<>>)>> ELSE <<>>)
                     \o <<Ev("process end", w, <<>>, TRUE, loaded)>>
                /\ chans[workers[w].chan].rx =>
                     chans'[workers[w].chan].msgs[1].res.loaded =
                         Cardinality(EventsOf(w, "loaded"))]_vars
    /\ [](\A w \in 1..Len(workers) :
            workers[w].kind = "process" =>
                /\ Cardinality(EventsOf(w, "broadcast")) <= 1
                /\ \A i \in EventsOf(w, "broadcast") :
                      /\ EventsOf(w, "loaded") # {}
                      /\ \A j \in Outcomes(w) : j < i
                      /\ workers[w].pc = "done"
                /\ (workers[w].pc = "done" /\ EventsOf(w, "loaded") # {}) =>
                      EventsOf(w, "broadcast") # {})

\* one operation has broadcast once after the name it classified "loaded",
\* and a later one with duplicate outcomes only has returned without
C19_Witness ==
    \E v, w \in 1..Len(workers) :
        /\ EventsOf(v, "loaded") # {}
        /\ Cardinality(EventsOf(v, "broadcast")) = 1
        /\ EventsOf(w, "process end") # {}
        /\ EventsOf(w, "duplicate") # {}
        /\ EventsOf(w, "loaded") = {}
        /\ EventsOf(w, "broadcast") = {}

\* the process threads started with use_cache = false that have not returned
UncachedRuns ==
    {w \in 1..Len(workers) : /\ workers[w].kind = "process"
                              /\ workers[w].pc \in {"start", "lock", "loop"}
                              /\ ~workers[w].l.use_cache}

\* C20: a process operation started in no-residue mode has cache use
\* disabled; it then takes the names of every font file from the font name
\* reader, loads no cache, puts no entry into one and leaves cache.json as
\* it is.
C20_CacheDisabled ==
    /\ [][(/\ Len(workers') = Len(workers) + 1
           /\ workers'[Len(workers')].kind = "process") =>
              workers'[Len(workers')].l.use_cache = (mode # "NoResidue")]_vars
    /\ [][\A w \in UncachedRuns :
            workers'[w] # workers[w] => cache_disk' = cache_disk]_vars
    /\ [][\A w \in UncachedRuns :
            (workers[w].pc = "start" /\ workers'[w].pc = "lock") =>
                LET l == workers'[w].l
                IN /\ l.cache_before = <<>>
                   /\ l.cache_after = <<>>
                   /\ l.font_files =
                        SelectSeq(collect_files(workers[w].l.paths), only_font_file)
                   /\ DOMAIN l.used = Range(l.font_files)
                   /\ \A file \in Range(l.font_files) :
                         l.used[file] = parse_font_names(file)]_vars

\* a build without cache has read a font file whose entry in cache.json, left
\* by an earlier build in normal mode, holds other names
C20_Witness ==
    \E w \in UncachedRuns :
        /\ workers[w].pc = "lock"
        /\ cache_disk.state = "ok"
        /\ \E file \in Range(workers[w].l.font_files) :
              /\ file \in DOMAIN cache_disk.entries
              /\ cache_disk.entries[file].names # workers[w].l.used[file]
              /\ cache_disk.entries[file].names # {}

\* the index builds in either mode: the threads that have built their index
IndexBuilds ==
    {w \in 1..Len(workers) : /\ workers[w].kind = "process"
                              /\ workers[w].pc \in {"lock", "loop"}}
\* the places in font_files of the files whose names (as the build took
\* them, from the cache or from the reader) have the key
DeclaringAt(l, key) ==
    {a \in DOMAIN l.font_files :
        \E n \in l.used[l.font_files[a]] : to_lowercase(n) = key}
Earliest(l, key) ==
    l.font_files[CHOOSE a \in DeclaringAt(l, key) :
                    \A b \in DeclaringAt(l, key) : a <= b]
AllKeys(l) == {to_lowercase(n) : n \in UNION {l.used[f] : f \in Range(l.font_files)}}

\* C21: the list of an index key holds the font files whose names have the
\* key, in the order the build processed them, whether the names came from
\* the cache or from the reader; and a required name is resolved to the
\* first of them, the earliest processed file with the key.
C21_CandidateOrder ==
    /\ [](\A w \in IndexBuilds :
            LET l == workers[w].l
            IN /\ DOMAIN l.index = AllKeys(l)
               /\ \A key \in DOMAIN l.index :
                     LET list == l.index[key]
                     IN /\ Range(list) = {l.font_files[a] : a \in DeclaringAt(l, key)}
                        /\ list[1] = Earliest(l, key)
                        /\ \A i, j \in DOMAIN list :
                              i < j => \E a, b \in DeclaringAt(l, key) :
                                          /\ a <= b
                                          /\ l.font_files[a] = list[i]
                                          /\ l.font_files[b] = list[j])
    /\ [][\A w \in 1..Len(workers) : \A font \in Required(w) :
            NameStep(w, font) =>
                LET l == workers[w].l
                    key == to_lowercase(font)
                    outcome == Appended[Len(Appended)]
                IN IF DeclaringAt(l, key) = {}
                   THEN outcome = Ev("missing", w, <<>>, TRUE, font)
                   ELSE /\ outcome.ev \in {"loaded", "duplicate", "failed"}
                        /\ outcome.path = Earliest(l, key)
                        /\ outcome.arg = font]_vars

\* a build in normal mode took the names of two files from the entries an
\* earlier build wrote, both have the key of a required name, and the name
\* was resolved to the one processed first
C21_Witness ==
    \E w \in IndexBuilds : \E i \in 1..Len(trace) :
        LET l == workers[w].l
            key == to_lowercase(trace[i].arg)
        IN /\ trace[i].by = w /\ IsOutcome(trace[i])
           /\ l.use_cache
           /\ Len(l.index[key]) = 2
           /\ l.index[key][1] # l.index[key][2]
           /\ trace[i].path = l.font_files[1]
           /\ \A a \in DOMAIN l.font_files : SameTime(l, l.font_files[a])

\* the number of bytes b in s
CountOf(s, b) == Cardinality({i \in DOMAIN s : s[i] = b})
\* the offset in s, which starts with '(', of the ')' that closes it: the
\* first place where as many ')' as '(' have been read; -1 when there is none
MatchingClose(s) ==
    LET hits == {m \in 1..(Len(s) - 1) :
                    /\ s[m + 1] = 41
                    /\ CountOf(Sub(s, 0, m + 1), 40) = CountOf(Sub(s, 0, m + 1), 41)}
    IN IF hits = {} THEN -1 ELSE CHOOSE m \in hits : \A k \in hits : m <= k
\* the names of the "\fn" tags of text from offset start, as the payload
\* rule delimits them: a parenthesized name ends at its matching ')', any
\* other at the next '\' or '}' or at the end, and the scan goes on behind
\* the name
RECURSIVE TagsFrom(_, _, _)
TagsFrom(text, start, res) ==
    LET pos == find(From(text, start), kw_fn)
    IN IF pos < 0 THEN res
       ELSE LET idx == start + pos + 3
                s == trim_start(From(text, idx))
                at == Len(text) - Len(s)
                close == IF starts_with(s, <<40>>) THEN MatchingClose(s) ELSE -1
                end == fn_name_end(s)
            IN IF close >= 0
               THEN TagsFrom(text, at + close + 1,
                             push_some(res, normalize_font_name(Sub(s, 1, close))))
               ELSE TagsFrom(text, at + end,
                             push_some(res, normalize_font_name(Sub(s, 0, end))))

\* every ')' of text closes an earlier '(' and every '(' is closed
Balanced(text) ==
    /\ CountOf(text, 40) = CountOf(text, 41)
    /\ \A n \in 0..Len(text) :
          CountOf(Sub(text, 0, n), 40) >= CountOf(Sub(text, 0, n), 41)

\* C22: for a payload whose parentheses are balanced, parse_fn_tags returns
\* the names of the "\fn" tags as the payload rule delimits them (a
\* parenthesized name up to its matching ')', commas and nested parentheses
\* included).
C22_FnDelimiting ==
    (output # <<>> /\ Balanced(fn_text(input))) =>
        /\ ~output[1].panic
        /\ output[1].res = TagsFrom(fn_text(input), 0, <<>>)

\* a force-clean thread has been started and has not returned (busy keeps
\* the handlers from starting an operation until its result is polled)
Cleaning ==
    \E w \in 1..Len(workers) : workers[w].kind = "clean" /\ workers[w].pc # "done"

\* C23: with the threads scheduled fairly, a force-clean operation that was
\* started returns: the loop on each file ends with the call that fails, and
\* the thread hands over its result.
C23_CleanTerminates == Cleaning ~> ~Cleaning

\* a force-clean thread has returned after calls that succeeded, and its last
\* call on each font file of the folder is one that failed
C23_Witness ==
    /\ ~Cleaning
    /\ \E w \in 1..Len(workers) :
          /\ workers[w].kind = "clean" /\ workers[w].pc = "done"
          /\ \E i \in EventsOf(w, "deactivate") : trace[i].ok
          /\ \A path \in FontFiles :
                \E i \in EventsOf(w, "deactivate") :
                    /\ trace[i].path = path /\ ~trace[i].ok
                    /\ \A j \in EventsOf(w, "deactivate") :
                          trace[j].path = path => j <= i

\* the sum of the four counters of a record
Total(r) == r.loaded + r.failed + r.missing + r.duplicates
\* the names the thread w has an outcome for
Named(w) == {trace[i].arg : i \in Outcomes(w)}
\* the names the .ass and .ssa files among the files of paths require
RequiredOf(paths) ==
    UNION {SubFonts[file].fonts :
              file \in {f \in Range(collect_files(paths)) : is_sub_file(f) /\ is_ass_file(f)}}
\* the lines of logs from the first that is not a "skipped" line
OutcomeLines(lg) ==
    LET k == Cardinality({i \in DOMAIN lg : lg[i][1] = "skipped"})
    IN SubSeq(lg, k + 1, Len(lg))

\* C24: in a process operation every required name gets one outcome: the
\* counters of the success result add up to the number of required names,
\* each counter is the number of names with that outcome, and the lines of
\* the log behind the skipped subtitles are one line per required name.
C24_OutcomePartition ==
    /\ [][\A w \in 1..Len(workers) :
            (/\ workers[w].kind = "process"
             /\ workers[w].pc = "start" /\ workers'[w].pc = "lock") =>
                /\ workers'[w].l.required = RequiredOf(workers[w].l.paths)
                /\ Total(workers'[w].l) = 0
                /\ OutcomeLines(workers'[w].l.logs) = <<>>]_vars
    /\ [][\A w \in 1..Len(workers) : \A font \in Required(w) :
            NameStep(w, font) =>
                /\ font \notin Named(w)
                /\ workers'[w].l.required = workers[w].l.required \ {font}
                /\ Total(workers'[w].l) = Total(workers[w].l) + 1]_vars
    /\ [](\A w \in 1..Len(workers) :
            (workers[w].kind = "process" /\ workers[w].pc = "loop") =>
                LET l == workers[w].l
                    named_lines == OutcomeLines(l.logs)
                IN /\ Named(w) \cap l.required = {}
                   /\ Cardinality(Outcomes(w)) = Cardinality(Named(w))
                   /\ l.loaded = Cardinality(EventsOf(w, "loaded"))
                   /\ l.failed = Cardinality(EventsOf(w, "failed"))
                   /\ l.missing = Cardinality(EventsOf(w, "missing"))
                   /\ l.duplicates = Cardinality(EventsOf(w, "duplicate"))
                   /\ Len(named_lines) = Cardinality(Named(w))
                   /\ {named_lines[i][2] : i \in DOMAIN named_lines} = Named(w)
                   /\ \A i \in DOMAIN named_lines : named_lines[i][1] # "skipped")
    /\ [][\A w \in 1..Len(workers) :
            (ProcessReturns(w) /\ chans[workers[w].chan].rx) =>
                LET l == workers[w].l
                    res == chans'[workers[w].chan].msgs[1].res
                IN /\ l.required = {}
                   /\ chans'[workers[w].chan].msgs[1].ok
                   /\ res.logs = l.logs
                   /\ <<res.loaded, res.failed, res.missing, res.duplicates>>
                        = <<l.loaded, l.failed, l.missing, l.duplicates>>
                   /\ Total(res) = Cardinality(Named(w))]_vars

\* a success result with three log lines: a skipped subtitle, then the lines
\* of two required names, one loaded and one failed
C24_Witness ==
    \E c \in 1..Len(chans) :
        /\ chans[c].msgs # <<>>
        /\ chans[c].msgs[1].kind = "Process" /\ chans[c].msgs[1].ok
        /\ LET res == chans[c].msgs[1].res
           IN /\ Len(res.logs) = 3
              /\ res.logs[1][1] = "skipped"
              /\ res.loaded = 1 /\ res.failed = 1

\* no operation is under way: every thread started has returned
Quiet == \A w \in 1..Len(workers) : workers[w].pc = "done"

\* C25: while the program runs and between its operations, every path of the
\* registry that no other program deactivates is activated (so that a
\* "duplicate" outcome means the font is really active).
C25_RegistryActive ==
    (app = "running" /\ Quiet) =>
        \A path \in loaded \ ExternalFonts : os_refs[path] > 0

\* C26: once on_exit has run, every activation the program made is followed
\* by a DeactivateFont attempt on its path, by an unload, a force-clean or
\* the sweep of on_exit; an operation outstanding at the exit included.
C26_SweepCoverage ==
    app = "closing" =>
        \A i \in 1..Len(trace) :
            (trace[i].ev = "activate" /\ trace[i].ok) =>
                \E j \in (i + 1)..Len(trace) :
                    trace[j].ev = "deactivate" /\ trace[j].path = trace[i].path

\* a thread of the kind is started in the step
Starts(kind) ==
    /\ Len(workers') = Len(workers) + 1
    /\ workers'[Len(workers')].kind = kind
\* a request is turned down with the notice in the step
Rejected(notice) == logs' = Append(logs, <<notice>>)

\* C27: busy is true exactly when a result receiver is held; starting an
\* operation needs busy false and sets both, starting a process operation
\* hands the pending paths to the thread and empties the list, and a request
\* turned down because busy or because the list is empty leaves the list,
\* busy and the receiver as they are.
C27_BusyCoupling ==
    /\ [](busy <=> worker_rx # 0)
    /\ [][Len(workers') # Len(workers) =>
            /\ ~busy /\ busy'
            /\ worker_rx' # 0 /\ worker_rx' # worker_rx
            /\ chans'[worker_rx'].rx /\ chans'[worker_rx'].msgs = <<>>
            /\ workers'[Len(workers')].chan = worker_rx'
            /\ \E kind \in {"process", "unload", "clean"} : Starts(kind)]_vars
    /\ [][Starts("process") =>
            /\ pending_paths # <<>>
            /\ workers'[Len(workers')].l.paths = pending_paths
            /\ pending_paths' = <<>>]_vars
    /\ [][Rejected("busy") =>
            /\ busy
            /\ UNCHANGED <<pending_paths, busy, worker_rx, workers, chans>>]_vars
    /\ [][Rejected("nothing pending") =>
            /\ ~busy /\ pending_paths = <<>>
            /\ UNCHANGED <<pending_paths, busy, worker_rx, workers, chans>>]_vars
    /\ [][(busy' # busy /\ ~busy') =>
            /\ worker_rx # 0 /\ worker_rx' = 0
            /\ app' = "closing" \/ chans[worker_rx].msgs # <<>>]_vars

\* a process request on the empty list was turned down, and a later one, with
\* paths pending, started the thread: busy, a receiver held, the list empty
C27_Witness ==
    /\ logs # <<>> /\ logs[1] = <<"nothing pending">>
    /\ busy /\ worker_rx # 0
    /\ pending_paths = <<>>
    /\ Len(workers) = 1 /\ workers[1].kind = "process"
    /\ workers[1].pc = "start" /\ workers[1].l.paths # <<>>

====
